---- MODULE Spec2Model ----
(***************************************************************************)
(* A model of the cef-safe bridge of inflink-rs:                           *)
(*   - CefRefPtr, the owning handle over CEF reference-counted structs     *)
(*     (packages/cef-safe/src/base.rs);                                    *)
(*   - RustClosureTask and renderer_post_task_in_v8_ctx, the task that     *)
(*     carries a one-shot closure to the renderer thread                   *)
(*     (packages/cef-safe/src/task.rs).                                    *)
(* Foreign objects are observed through the calls made on their vtables.   *)
(***************************************************************************)
EXTENDS Integers, Sequences, FiniteSets, TLC

\* ---------------------------------------------------------------- bounds
MaxHandles == 2      \* CefRefPtr values ever created
MaxTasks == 1        \* calls of renderer_post_task_in_v8_ctx
MaxExecutes == 2     \* calls of one task's execute entry by the scheduler
MaxSchedRefs == 2    \* references the scheduler holds on one task
MaxRunnerPairs == 1  \* add_ref/release pairs the runner makes while posting
MaxThreads == 2      \* threads that share one task allocation
MaxRefs == 3         \* references held on that allocation at one time
MaxArgs == 2         \* arguments passed to one execute_function call
MaxCallers == 2      \* threads that call into a callback registry
MaxQueue == 1        \* dispatch tasks the scheduler holds at one time

\* ------------------------------------------------------- foreign objects
NULL == "null"
Objects == {"ctx_a", "ctx_b"}
Handles == 1..MaxHandles
Tasks == 1..MaxTasks

\* The function-pointer table of a foreign object: every entry is an
\* Option in the bindings, and the code tests each one before calling it.
VtShapes == [add_ref : BOOLEAN, release : BOOLEAN, enter : BOOLEAN, exit : BOOLEAN]
\* An object as the runtime makes them: every entry supplied.
FullVt == [add_ref |-> TRUE, release |-> TRUE, enter |-> TRUE, exit |-> TRUE]

VARIABLES
    vtable,     \* vtable[o]: which entries object o supplies
    handles,    \* handles[h]: one CefRefPtr value
    calls,      \* calls[o]: the calls observed on object o
    tasks,      \* tasks[t]: the RustClosureTask of the t-th post call
    aborted,    \* the process was aborted (a panic left an extern fn, ...)
    last,       \* the operation performed last, with what it observed
    cell,       \* one task allocation shared by several threads
    threads,    \* threads[i]: what thread i holds of cell, and where it is
    v8,         \* the last call of the value bridge: its inputs and what it did
    reg         \* a callback registry, its callers and the tasks it posted

\* The variables of the components an action of another component leaves
\* alone.
refVars == <<cell, threads>>
handleVars == <<vtable, handles, calls, tasks, aborted>>

vars == <<vtable, handles, calls, tasks, aborted, last, cell, threads, v8, reg>>

NoHandle == [state |-> "unused", obj |-> NULL, origin |-> "none",
             releases |-> 0, borrows |-> 0]
NoCalls == [add_ref |-> 0, release |-> 0]

\* A handle just made on object o by from_raw or by clone.
LiveHandle(o, origin) == [state |-> "live", obj |-> o, origin |-> origin,
                          releases |-> 0, borrows |-> 0]

\* The slot of a post call that was not made yet.  alloc: "never" (the call
\* returned before Box::new), "alive", "freed"; closure: the Option; sched:
\* references the scheduler holds; frees, invoked, destroyed, executes
\* count what happened to the allocation and to the closure.
NoTask == [alloc |-> "unused", closure |-> "none", v8_context |-> 0,
           ref_count |-> 0, result |-> "none", sched |-> 0,
           frees |-> 0, invoked |-> 0, destroyed |-> 0, executes |-> 0]

\* The allocation of a RustClosureTask as several threads see it: the
\* atomic counter, whether the Box is alive, how often it was freed, how
\* many release calls answered 1, and whether the memory was touched (or
\* freed again) after the free.
Threads == 1..MaxThreads
NoCell == [ref_count |-> 0, alloc |-> "unused", frees |-> 0, ones |-> 0,
           after_free |-> FALSE]
\* held: references the thread owns; pc: "idle", or "subbed" between the
\* fetch_sub of a release and what follows it; old: what fetch_sub gave.
NoThread == [held |-> 0, pc |-> "idle", old |-> 0]

\* No execute_function call was made yet.
NoCall == [phase |-> "idle"]
\* No registry is in use.
NoRegistry == [kind |-> "none"]

\* The program state the operations transform.
State == [h |-> handles, c |-> calls, t |-> tasks, ab |-> aborted]

\* The vtable calls an operation made: the observed counts after it, less
\* those before it.
Delta(S0, S1) ==
    [o \in Objects |-> [add_ref |-> S1.c[o].add_ref - S0.c[o].add_ref,
                        release |-> S1.c[o].release - S0.c[o].release]]
NoDelta == [o \in Objects |-> [add_ref |-> 0, release |-> 0]]

Install(S) ==
    /\ handles' = S.h
    /\ calls' = S.c
    /\ tasks' = S.t
    /\ aborted' = S.ab

Range(f) == {f[i] : i \in DOMAIN f}

HasFree(S) == \E h \in Handles : S.h[h].state = "unused"
NewHandle(S) == CHOOSE h \in Handles :
    /\ S.h[h].state = "unused"
    /\ \A g \in Handles : g < h => S.h[g].state # "unused"

\* ------------------------------------------------------------ CefRefPtr
CefError_NullPtrReceived == "NullPtrReceived"

\* NonNull::new(ptr).map(..).ok_or(NullPtrReceived): the result alone.
from_raw_result(ptr) == IF ptr = NULL THEN CefError_NullPtrReceived ELSE "Ok"

from_raw_addref(S, ptr) ==
    IF ptr = NULL THEN S
    ELSE [S EXCEPT !.h[NewHandle(S)] = LiveHandle(ptr, "from_raw"),
                   !.c[ptr].add_ref = @ + 1]

\* CefRefPtr::from_raw: wraps the pointer, calls nothing.
from_raw(S, ptr) ==
    IF ptr = NULL THEN S
    ELSE [S EXCEPT !.h[NewHandle(S)] = LiveHandle(ptr, "from_raw")]

\* CefRefPtr::as_raw: a borrow (recorded on the handle), nothing else.
as_raw(S, h) == [S EXCEPT !.h[h].borrows = 1]

clone_no_addref(S, h) ==
    [S EXCEPT !.h[NewHandle(S)] = LiveHandle(S.h[h].obj, "clone")]

\* Clone for CefRefPtr: add_ref when the header has it, then a new handle.
clone(S, h) ==
    LET o == S.h[h].obj
        S1 == IF vtable[o].add_ref THEN [S EXCEPT !.c[o].add_ref = @ + 1] ELSE S
    IN [S1 EXCEPT !.h[NewHandle(S)] = LiveHandle(o, "clone")]

\* Drop for CefRefPtr: release when the header has it.
drop(S, h) ==
    LET o == S.h[h].obj
    IN IF vtable[o].release
       THEN [S EXCEPT !.h[h].state = "dropped", !.h[h].releases = @ + 1,
                      !.c[o].release = @ + 1]
       ELSE [S EXCEPT !.h[h].state = "dropped"]

into_raw_drop(S, h) ==
    [drop(S, h) EXCEPT !.h[h].state = "forgotten"]

\* CefRefPtr::into_raw: mem::forget(self), so Drop never runs for it.
into_raw(S, h) ==
    [S EXCEPT !.h[h].state = "forgotten"]

\* ------------------------------------------------------ RustClosureTask
CefError_TaskPostFailed == "TaskPostFailed"

NewTask(S) == CHOOSE t \in Tasks :
    /\ S.t[t].alloc = "unused"
    /\ \A u \in Tasks : u < t => S.t[u].alloc # "unused"

\* The object behind rust_task.v8_context.
Ctx(S, t) == S.h[S.t[t].v8_context].obj

\* internal_logic::base_add_ref: fetch_add(1).
base_add_ref(S, t) == [S EXCEPT !.t[t].ref_count = @ + 1]

\* drop(Box::from_raw(task_ptr)): frees the allocation, which drops the
\* closure (uninvoked if still stored) and the context handle.  On an
\* allocation that was freed already this is a second free of the same
\* memory: the allocator aborts the process, or the drop glue runs again
\* over the stale fields (stale says which).
DropBox(S, t, stale) ==
    LET again == [S EXCEPT !.t[t].alloc = "freed", !.t[t].frees = @ + 1,
                           !.t[t].destroyed =
                               IF S.t[t].closure = "some" THEN @ + 1 ELSE @]
    IN IF S.t[t].alloc = "alive" \/ stale = "repeat"
       THEN drop(again, S.t[t].v8_context)
       ELSE [S EXCEPT !.t[t].frees = @ + 1, !.ab = TRUE]

base_release_no_free(S, t) == [S EXCEPT !.t[t].ref_count = @ - 1]

\* internal_logic::base_release: fetch_sub(1) == 1 frees the task.
base_release(S, t) ==
    IF S.t[t].ref_count = 1
    THEN DropBox([S EXCEPT !.t[t].ref_count = 0], t, "repeat")
    ELSE [S EXCEPT !.t[t].ref_count = @ - 1]

\* What base_release returns: 1 when it freed the task.
base_release_ret(S, t) == IF S.t[t].ref_count = 1 THEN 1 ELSE 0

\* What one execution did, in order.
Events(entered, ran, exited) ==
    (IF entered THEN <<"enter">> ELSE <<>>)
        \o (IF ran THEN <<"callback">> ELSE <<>>)
        \o (IF exited THEN <<"exit">> ELSE <<>>)

execute_no_take(S, t, panics) ==
    LET o == Ctx(S, t)
        had == S.t[t].closure = "some"
    IN [S |-> IF had THEN [S EXCEPT !.t[t].invoked = @ + 1] ELSE S,
        events |-> Events(vtable[o].enter, had, vtable[o].enter /\ vtable[o].exit),
        panicked |-> had /\ panics,
        returned |-> TRUE]

execute_return_when_empty(S, t, panics) ==
    LET o == Ctx(S, t)
        had == S.t[t].closure = "some"
    IN [S |-> IF had THEN [S EXCEPT !.t[t].closure = "none", !.t[t].invoked = @ + 1]
              ELSE S,
        events |-> IF had
                   THEN Events(vtable[o].enter, had, vtable[o].enter /\ vtable[o].exit)
                   ELSE <<>>,
        panicked |-> had /\ panics,
        returned |-> TRUE]

execute_no_catch(S, t, panics) ==
    LET o == Ctx(S, t)
        had == S.t[t].closure = "some"
        S1 == IF had THEN [S EXCEPT !.t[t].closure = "none", !.t[t].invoked = @ + 1]
              ELSE S
    IN IF had /\ panics
       THEN [S |-> [S1 EXCEPT !.ab = TRUE],
             events |-> Events(vtable[o].enter, had, FALSE),
             panicked |-> TRUE,
             returned |-> FALSE]
       ELSE [S |-> S1,
             events |-> Events(vtable[o].enter, had, vtable[o].enter /\ vtable[o].exit),
             panicked |-> FALSE,
             returned |-> TRUE]

\* internal_logic::execute_rust_closure.  enter is called when the context
\* has the entry, and entered_context is then true whatever enter returned;
\* closure.take() empties the slot; catch_unwind swallows a panic of the
\* closure; exit is called when entered_context and the context has exit.
execute_rust_closure(S, t, panics) ==
    LET o == Ctx(S, t)
        entered_context == vtable[o].enter
        had == S.t[t].closure = "some"
    IN [S |-> IF had THEN [S EXCEPT !.t[t].closure = "none", !.t[t].invoked = @ + 1]
              ELSE S,
        events |-> Events(entered_context, had, entered_context /\ vtable[o].exit),
        panicked |-> had /\ panics,
        returned |-> TRUE]

\* The runner's post_task entry, a foreign function.  It may take and give
\* back references while it runs (pairs); it keeps the task it was handed
\* when it reports 1, and when it reports anything else it either leaves the
\* reference it was handed alone or releases it (consume), as a callee that
\* owns its reference arguments does.
RECURSIVE RunnerPairs(_, _, _)
RunnerPairs(S, t, n) ==
    IF n = 0 THEN S
    ELSE RunnerPairs(base_release(base_add_ref(S, t), t), t, n - 1)

post_task_func(S, t, pairs, ret, consume) ==
    LET S1 == RunnerPairs(S, t, pairs)
    IN IF ret = 1 THEN [S1 EXCEPT !.t[t].sched = 1]
       ELSE IF consume THEN base_release(S1, t) ELSE S1

post_forgets_context(S, t, h, runner, pairs, ret, consume, stale) ==
    IF runner = "null"
    THEN [S EXCEPT
             !.h[h].state = "forgotten",
             !.t[t] = [NoTask EXCEPT !.alloc = "never", !.destroyed = 1,
                                     !.result = CefError_TaskPostFailed]]
    ELSE LET S1 == [S EXCEPT
                       !.t[t] = [NoTask EXCEPT !.alloc = "alive", !.closure = "some",
                                               !.v8_context = h, !.ref_count = 1],
                       !.h[h].state = "stored"]
             S2 == IF runner = "post_task"
                   THEN post_task_func(S1, t, pairs, ret, consume)
                   ELSE S1
             success == runner = "post_task" /\ ret = 1
         IN IF success
            THEN [S2 EXCEPT !.t[t].result = "Ok"]
            ELSE [DropBox(S2, t, stale) EXCEPT !.t[t].result = CefError_TaskPostFailed]

\* renderer_post_task_in_v8_ctx, the t-th call of it, given the handle h.
\* runner: what cef_task_runner_get_for_thread answered ("null", a runner
\* with no post_task entry, or a runner with one).
renderer_post_task_in_v8_ctx(S, t, h, runner, pairs, ret, consume, stale) ==
    IF runner = "null"
    THEN \* the early return drops the closure and the context handle
         [drop(S, h) EXCEPT
             !.t[t] = [NoTask EXCEPT !.alloc = "never", !.destroyed = 1,
                                     !.result = CefError_TaskPostFailed]]
    ELSE \* Box::new, Box::leak, the post, and on failure the drop of the Box
         LET S1 == [S EXCEPT
                       !.t[t] = [NoTask EXCEPT !.alloc = "alive", !.closure = "some",
                                               !.v8_context = h, !.ref_count = 1],
                       !.h[h].state = "stored"]
             S2 == IF runner = "post_task"
                   THEN post_task_func(S1, t, pairs, ret, consume)
                   ELSE S1
             success == runner = "post_task" /\ ret = 1
         IN IF success
            THEN [S2 EXCEPT !.t[t].result = "Ok"]
            ELSE [DropBox(S2, t, stale) EXCEPT !.t[t].result = CefError_TaskPostFailed]

\* -------------------------------------------------------------- actions
\* ctx_b is an object as the runtime makes them; ctx_a has any table.
Init ==
    /\ vtable \in {f \in [Objects -> VtShapes] : f["ctx_b"] = FullVt}
    /\ handles = [h \in Handles |-> NoHandle]
    /\ calls = [o \in Objects |-> NoCalls]
    /\ tasks = [t \in Tasks |-> NoTask]
    /\ aborted = FALSE
    /\ last = [op |-> "none"]
    /\ cell = NoCell
    /\ threads = [i \in Threads |-> NoThread]
    /\ v8 = NoCall
    /\ reg = NoRegistry

\* Handles alone: the entries only a context has are left supplied.
HandleInit == Init /\ vtable["ctx_a"].enter /\ vtable["ctx_a"].exit

\* Tasks: no handle is cloned, add_ref is left supplied.
TaskInit == Init /\ vtable["ctx_a"].add_ref

\* from_raw on a pointer that is null or represents one held reference.
FromRaw(ptr) ==
    /\ ~aborted
    /\ ptr # NULL => HasFree(State)
    /\ LET S1 == from_raw(State, ptr)
       IN /\ Install(S1)
          /\ last' = [op |-> "from_raw", ptr |-> ptr,
                      result |-> from_raw_result(ptr),
                      created |-> S1.h # State.h,
                      made |-> Delta(State, S1)]
    /\ UNCHANGED <<vtable, refVars, v8, reg>>

Clone(h) ==
    /\ ~aborted
    /\ handles[h].state = "live"
    /\ HasFree(State)
    /\ LET S1 == clone(State, h)
       IN /\ Install(S1)
          /\ last' = [op |-> "clone", made |-> Delta(State, S1)]
    /\ UNCHANGED <<vtable, refVars, v8, reg>>

Drop(h) ==
    /\ ~aborted
    /\ handles[h].state = "live"
    /\ LET S1 == drop(State, h)
       IN /\ Install(S1)
          /\ last' = [op |-> "drop", made |-> Delta(State, S1)]
    /\ UNCHANGED <<vtable, refVars, v8, reg>>

AsRaw(h) ==
    /\ ~aborted
    /\ handles[h].state = "live"
    /\ LET S1 == as_raw(State, h)
       IN /\ Install(S1)
          /\ last' = [op |-> "as_raw", made |-> Delta(State, S1)]
    /\ UNCHANGED <<vtable, refVars, v8, reg>>

IntoRaw(h) ==
    /\ ~aborted
    /\ handles[h].state = "live"
    /\ LET S1 == into_raw(State, h)
       IN /\ Install(S1)
          /\ last' = [op |-> "into_raw", made |-> Delta(State, S1)]
    /\ UNCHANGED <<vtable, refVars, v8, reg>>

HandleNext ==
    \/ \E ptr \in Objects \cup {NULL} : FromRaw(ptr)
    \/ \E h \in Handles : Clone(h)
    \/ \E h \in Handles : Drop(h)
    \/ \E h \in Handles : AsRaw(h)
    \/ \E h \in Handles : IntoRaw(h)

\* The behaviours made of handle operations alone: what CefRefPtr
\* guarantees is stated over these.
HandleSpec == HandleInit /\ [][HandleNext]_vars

Runners == {"null", "no_post_task", "post_task"}
RunnerRets == {0, 1, 2}

\* One call of renderer_post_task_in_v8_ctx by the owner of handle h.
PostTask(h, runner, pairs, ret, consume, stale) ==
    /\ ~aborted
    /\ handles[h].state = "live"
    /\ \E t \in Tasks : tasks[t].alloc = "unused"
    \* inputs that are never read take one value
    /\ runner # "post_task" => pairs = 0 /\ ret = 0   \* no post was called
    /\ (runner # "post_task" \/ ret = 1) => ~consume
    /\ ~consume => stale = "repeat"
    /\ LET t == NewTask(State)
           S1 == renderer_post_task_in_v8_ctx(State, t, h, runner, pairs, ret,
                                              consume, stale)
       IN /\ Install(S1)
          /\ last' = [op |-> "post", task |-> t, ctx |-> handles[h].obj,
                      runner |-> runner, reported |-> ret, consumed |-> consume,
                      made |-> Delta(State, S1)]
    /\ UNCHANGED <<vtable, refVars, v8, reg>>

\* The scheduler takes one more reference on a task it holds.
SchedulerAddRef(t) ==
    /\ ~aborted
    /\ tasks[t].sched > 0
    /\ tasks[t].sched < MaxSchedRefs
    /\ LET S1 == base_add_ref(State, t)
       IN /\ Install([S1 EXCEPT !.t[t].sched = @ + 1])
          /\ last' = [op |-> "add_ref", task |-> t, made |-> Delta(State, S1)]
    /\ UNCHANGED <<vtable, refVars, v8, reg>>

\* The scheduler gives back one of the references it holds.
SchedulerRelease(t) ==
    /\ ~aborted
    /\ tasks[t].sched > 0
    /\ LET S1 == base_release(State, t)
       IN /\ Install([S1 EXCEPT !.t[t].sched = @ - 1])
          /\ last' = [op |-> "release", task |-> t,
                      ret |-> base_release_ret(State, t),
                      made |-> Delta(State, S1)]
    /\ UNCHANGED <<vtable, refVars, v8, reg>>

\* The scheduler calls the execute entry of a task it holds; enter_ret is
\* what the context's enter answers, panics whether the closure panics.
Execute(t, enter_ret, panics) ==
    /\ ~aborted
    /\ tasks[t].sched > 0
    /\ tasks[t].executes < MaxExecutes
    \* inputs that are never read take one value
    /\ ~vtable[Ctx(State, t)].enter => enter_ret = 0
    /\ tasks[t].closure = "none" => ~panics
    /\ LET r == execute_rust_closure(State, t, panics)
       IN /\ Install([r.S EXCEPT !.t[t].executes = @ + 1])
          /\ last' = [op |-> "execute", task |-> t, ctx |-> Ctx(State, t),
                      slot |-> tasks[t].closure,
                      enter_ret |-> enter_ret,
                      events |-> r.events,
                      panicked |-> r.panicked,
                      returned |-> r.returned,
                      kept |-> r.S.t = tasks /\ r.S.h = handles,
                      made |-> Delta(State, r.S)]
    /\ UNCHANGED <<vtable, refVars, v8, reg>>

\* CefV8Context::current() by a caller about to post: from_raw of what the
\* runtime answers.
Current(ptr) ==
    /\ \A h \in Handles : handles[h].state # "live"
    /\ FromRaw(ptr)

TaskNext ==
    \/ \E ptr \in Objects \cup {NULL} : Current(ptr)
    \/ \E h \in Handles, runner \in Runners, pairs \in 0..MaxRunnerPairs,
          ret \in RunnerRets, consume \in BOOLEAN, stale \in {"abort", "repeat"} :
          PostTask(h, runner, pairs, ret, consume, stale)
    \/ \E t \in Tasks : SchedulerAddRef(t)
    \/ \E t \in Tasks : SchedulerRelease(t)
    \/ \E t \in Tasks, enter_ret \in {0, 1}, panics \in BOOLEAN :
          Execute(t, enter_ret, panics)

\* The behaviours of callers that post tasks and of the scheduler that
\* holds, executes and releases them.
TaskSpec == TaskInit /\ [][TaskNext]_vars

Next == HandleNext \/ TaskNext
Spec == Init /\ [][Next]_vars

\* ================================================================ claims
\* The handles on object o that are alive, held by a caller or stored in
\* a task.
LiveOn(o) == {h \in Handles : handles[h].obj = o
                               /\ handles[h].state \in {"live", "stored"}}
FromRawOn(o) == {h \in Handles : handles[h].obj = o /\ handles[h].origin = "from_raw"}
ForgottenOn(o) == {h \in Handles : handles[h].obj = o /\ handles[h].state = "forgotten"}
\* The header of o supplies the two entries the calls are observed on.
HeaderSupplied(o) == vtable[o].add_ref /\ vtable[o].release

\* C1: on an object whose header supplies add_ref and release, after one
\* from_raw and any clones and drops of the handles derived from it, the
\* number of live handles is 1 + add_ref calls - release calls; once all of
\* them are dropped, release calls = add_ref calls + 1.
C1_LiveHandlesMatchReferences ==
    \A o \in Objects :
        (HeaderSupplied(o) /\ Cardinality(FromRawOn(o)) = 1 /\ ForgottenOn(o) = {})
        => /\ Cardinality(LiveOn(o)) = 1 + calls[o].add_ref - calls[o].release
           /\ LiveOn(o) = {} => calls[o].release = calls[o].add_ref + 1

\* A handle was cloned and every handle on the object has been dropped.
C1_Witness ==
    \E o \in Objects :
        /\ HeaderSupplied(o) /\ Cardinality(FromRawOn(o)) = 1 /\ ForgottenOn(o) = {}
        /\ calls[o].add_ref >= 1
        /\ LiveOn(o) = {}

\* C2: from_raw(null) returns NullPtrReceived, makes no handle and no
\* vtable call; from_raw(non-null) returns a handle and calls no add_ref
\* (nor release).
C2_FromRawTakesOverOneReference ==
    last.op = "from_raw" =>
        /\ last.made = NoDelta
        /\ last.ptr = NULL => (last.result = CefError_NullPtrReceived /\ ~last.created)
        /\ last.ptr # NULL => (last.result = "Ok" /\ last.created)

\* from_raw(null) after a handle was made on a real object.
C2_Witness ==
    /\ last.op = "from_raw"
    /\ last.ptr = NULL
    /\ \E h \in Handles : handles[h].state = "live"

\* C3: as_raw and into_raw call neither add_ref nor release; a handle
\* consumed by into_raw never causes a release; a handle that was borrowed
\* by as_raw and then dropped has released exactly once (on an object whose
\* header supplies release).
C3_RawConversionsKeepTheCount ==
    /\ last.op \in {"as_raw", "into_raw"} => last.made = NoDelta
    /\ \A h \in Handles :
        /\ handles[h].state = "forgotten" => handles[h].releases = 0
        /\ (handles[h].state = "dropped" /\ handles[h].borrows = 1
            /\ vtable[handles[h].obj].release) => handles[h].releases = 1

\* One handle was consumed by into_raw, another borrowed and then dropped.
C3_Witness ==
    \E h, g \in Handles :
        /\ handles[h].state = "forgotten"
        /\ handles[g].state = "dropped" /\ handles[g].borrows = 1
        /\ vtable[handles[g].obj].release

\* The calls a post made on the objects when all it did was to drop the
\* context handle it was given: one release on the context (if its header
\* supplies release), nothing else.
OnlyContextDropped(ctx) ==
    [NoDelta EXCEPT ![ctx].release = IF vtable[ctx].release THEN 1 ELSE 0]

\* C4 as stated: when the resolver returns no runner, post_task returns
\* TaskPostFailed, allocates no task, never invokes the callback, and makes
\* no add_ref and no release call at all, the context handle included.
C4_ResolverFailureMakesNoCall ==
    (last.op = "post" /\ last.runner = "null") =>
        /\ tasks[last.task].result = CefError_TaskPostFailed
        /\ tasks[last.task].alloc = "never"
        /\ tasks[last.task].invoked = 0
        /\ last.made = NoDelta

\* C4 as amended: when the resolver returns no runner, post_task returns
\* TaskPostFailed, allocates no task (so no add_ref, release or free of a
\* task), destroys the callback without invoking it, and makes no add_ref
\* call; the context handle it was given is consumed: it is dropped, which
\* releases the context exactly once.
C4_ResolverFailureDropsContextOnce ==
    (last.op = "post" /\ last.runner = "null") =>
        /\ tasks[last.task].result = CefError_TaskPostFailed
        /\ tasks[last.task].alloc = "never"
        /\ tasks[last.task].ref_count = 0 /\ tasks[last.task].frees = 0
        /\ tasks[last.task].invoked = 0 /\ tasks[last.task].destroyed = 1
        /\ last.made = OnlyContextDropped(last.ctx)
        /\ \A h \in Handles : handles[h].state # "forgotten"

\* A post failed at the resolver and the context was released by it.
C4_Witness ==
    /\ last.op = "post" /\ last.runner = "null"
    /\ last.made[last.ctx].release = 1

\* C5: when the runner's post reports failure (a value other than 1, or no
\* post entry), post_task returns TaskPostFailed, the task allocation is
\* freed exactly once, its context handle is released exactly once, and the
\* callback is destroyed (once) without being invoked, whatever add_ref and
\* release calls the runner made on the task.
C5_FailedPostFreesTaskOnce ==
    \A t \in Tasks :
        (tasks[t].result = CefError_TaskPostFailed /\ tasks[t].alloc # "never") =>
            /\ tasks[t].alloc = "freed"
            /\ tasks[t].frees = 1
            /\ tasks[t].destroyed = 1
            /\ tasks[t].invoked = 0
            /\ vtable[Ctx(State, t)].release =>
                   handles[tasks[t].v8_context].releases = 1

\* C6: right after post_task returned Ok there is one live allocation with
\* reference count 1, that reference held by the scheduler, the callback
\* still stored; after it returned TaskPostFailed no allocation exists (none
\* was made, or the one made was freed, once), the scheduler holds nothing
\* it could execute and the callback never runs.
C6_PostIsAtomic ==
    \A t \in Tasks :
        /\ (last.op = "post" /\ last.task = t /\ tasks[t].result = "Ok") =>
               /\ tasks[t].alloc = "alive"
               /\ tasks[t].ref_count = 1
               /\ tasks[t].sched = 1
               /\ tasks[t].closure = "some"
        /\ tasks[t].result = CefError_TaskPostFailed =>
               /\ tasks[t].alloc \in {"never", "freed"}
               /\ tasks[t].frees <= 1
               /\ tasks[t].sched = 0
               /\ tasks[t].invoked = 0
               /\ ~aborted

\* C7: however often execute is called on a posted task, its callback is
\* invoked at most once: the first execution empties the slot, and every
\* later execution finds it empty.
C7_CallbackAtMostOnce ==
    \A t \in Tasks :
        /\ tasks[t].invoked <= 1
        /\ tasks[t].executes >= 1 => (tasks[t].closure = "none" /\ tasks[t].invoked = 1)
        /\ (last.op = "execute" /\ last.task = t /\ tasks[t].executes >= 2) =>
               (last.slot = "none" /\ "callback" \notin Range(last.events))

\* execute ran twice on one task, the callback once.
C7_Witness ==
    \E t \in Tasks : tasks[t].executes >= 2 /\ tasks[t].invoked = 1

\* C8 as stated: an execution that finds the slot empty changes no task
\* state and calls nothing in the foreign runtime: no enter, no exit.
C8_SecondExecuteIsNoOp ==
    (last.op = "execute" /\ last.slot = "none") =>
        /\ last.kept
        /\ last.made = NoDelta
        /\ last.events = <<>>

\* C8 as amended: an execution that finds the slot empty runs no callback
\* and changes no task state (nor any reference count), but it still
\* enters the stored context when the context has enter, and then exits it
\* when the context has exit.
C8_SecondExecuteRunsNoCallback ==
    (last.op = "execute" /\ last.slot = "none") =>
        /\ last.kept
        /\ last.made = NoDelta
        /\ "callback" \notin Range(last.events)
        /\ "enter" \in Range(last.events) <=> vtable[last.ctx].enter
        /\ "exit" \in Range(last.events) <=>
               (vtable[last.ctx].enter /\ vtable[last.ctx].exit)

\* A second execution that entered and exited the context.
C8_Witness ==
    /\ last.op = "execute" /\ last.slot = "none"
    /\ last.events = <<"enter", "exit">>

\* Entry into the context took effect in the last execution: enter was
\* called and reported success.
EnterSucceeded == "enter" \in Range(last.events) /\ last.enter_ret = 1

\* C9 as stated: when the callback panics, execute still returns normally,
\* the process is not aborted, and whenever enter succeeded exit is called
\* exactly once, after the callback.
C9_PanicContainedExitCalled ==
    (last.op = "execute" /\ last.panicked) =>
        /\ last.returned /\ ~aborted
        /\ EnterSucceeded => last.events = <<"enter", "callback", "exit">>

\* C9 as amended: when the callback panics, execute still returns normally,
\* the process is not aborted, and whenever enter succeeded and the context
\* has an exit entry, exit is called exactly once, after the callback.
C9_PanicContainedExitCalledIfSupplied ==
    (last.op = "execute" /\ last.panicked) =>
        /\ last.returned /\ ~aborted
        /\ (EnterSucceeded /\ vtable[last.ctx].exit) =>
               last.events = <<"enter", "callback", "exit">>
        /\ ~vtable[last.ctx].exit => "exit" \notin Range(last.events)

\* The callback panicked inside an entered context, and exit was called.
C9_Witness ==
    /\ last.op = "execute" /\ last.panicked /\ EnterSucceeded
    /\ last.events = <<"enter", "callback", "exit">>
    /\ ~aborted

\* C10: an execution calls enter (if the context has it), then the
\* callback, then exit, and exit is called if and only if entry succeeded:
\* not when enter is unavailable, and not when enter reported failure.
C10_ExitIffEntered ==
    last.op = "execute" =>
        /\ \E e, c, x \in BOOLEAN : last.events = Events(e, c, x)
        /\ "exit" \in Range(last.events) <=> EnterSucceeded

\* ------------------------------------- the task's counter, many threads
\* ref_count.fetch_add(1, Relaxed): one atomic step on the allocation.
fetch_add(c) ==
    [c EXCEPT !.ref_count = @ + 1, !.after_free = @ \/ c.alloc # "alive"]

\* ref_count.fetch_sub(1, AcqRel): one atomic step; the caller keeps the
\* value it replaced.
fetch_sub(c) ==
    [c EXCEPT !.ref_count = @ - 1, !.after_free = @ \/ c.alloc # "alive"]

release_frees_at_two(old) == old <= 2

\* The test of base_release on what fetch_sub gave: == 1.
release_frees(old) == old = 1

\* drop(Box::from_raw(task_ptr)) in base_release.
free_box(c) ==
    [c EXCEPT !.alloc = "freed", !.frees = @ + 1,
              !.after_free = @ \/ c.alloc # "alive"]

RECURSIVE HeldUpTo(_, _)
HeldUpTo(th, n) == IF n = 0 THEN 0 ELSE th[n].held + HeldUpTo(th, n - 1)
\* The references all threads own together.
HeldTotal(th) == HeldUpTo(th, MaxThreads)

\* A task that was posted: the references on it are spread over the
\* threads, and the counter counts them.
RefInit ==
    /\ vtable = [o \in Objects |-> FullVt]
    /\ handles = [h \in Handles |-> NoHandle]
    /\ calls = [o \in Objects |-> NoCalls]
    /\ tasks = [t \in Tasks |-> NoTask]
    /\ aborted = FALSE
    /\ last = [op |-> "none"]
    /\ threads \in {th \in [Threads -> [held : 0..MaxRefs, pc : {"idle"}, old : {0}]] :
                       HeldTotal(th) \in 1..MaxRefs}
    /\ cell = [NoCell EXCEPT !.alloc = "alive", !.ref_count = HeldTotal(threads)]
    /\ v8 = NoCall
    /\ reg = NoRegistry

\* Thread i calls base_add_ref through a reference it owns.
AddRef(i) ==
    /\ threads[i].pc = "idle"
    /\ threads[i].held >= 1
    /\ HeldTotal(threads) < MaxRefs
    /\ cell' = fetch_add(cell)
    /\ threads' = [threads EXCEPT ![i].held = @ + 1]
    /\ last' = [op |-> "add_ref", thread |-> i]
    /\ UNCHANGED <<handleVars, v8, reg>>

\* Thread i hands a reference it owns to thread j (no call is made).
Give(i, j) ==
    /\ i # j
    /\ threads[i].pc = "idle"
    /\ threads[i].held >= 1
    /\ threads' = [threads EXCEPT ![i].held = @ - 1, ![j].held = @ + 1]
    /\ last' = [op |-> "give", thread |-> i]
    /\ UNCHANGED <<cell, handleVars, v8, reg>>

\* Thread i calls base_release on a reference it owns: the fetch_sub.
ReleaseSub(i) ==
    /\ threads[i].pc = "idle"
    /\ threads[i].held >= 1
    /\ cell' = fetch_sub(cell)
    /\ threads' = [threads EXCEPT ![i].held = @ - 1, ![i].pc = "subbed",
                                  ![i].old = cell.ref_count]
    /\ last' = [op |-> "fetch_sub", thread |-> i]
    /\ UNCHANGED <<handleVars, v8, reg>>

\* The rest of that base_release: the free when the test says so, and the
\* value returned.
ReleaseEnd(i) ==
    /\ threads[i].pc = "subbed"
    /\ LET frees == release_frees(threads[i].old)
           ret == IF frees THEN 1 ELSE 0
           c1 == IF frees THEN free_box(cell) ELSE cell
       IN /\ cell' = [c1 EXCEPT !.ones = @ + ret]
          /\ last' = [op |-> "release", thread |-> i, old |-> threads[i].old,
                      ret |-> ret, freed |-> c1.frees - cell.frees]
    /\ threads' = [threads EXCEPT ![i].pc = "idle", ![i].old = 0]
    /\ UNCHANGED <<handleVars, v8, reg>>

RefNext ==
    \/ \E i \in Threads : AddRef(i)
    \/ \E i, j \in Threads : Give(i, j)
    \/ \E i \in Threads : ReleaseSub(i)
    \/ \E i \in Threads : ReleaseEnd(i)

\* The behaviours of threads that share one task through its counter.
RefSpec == RefInit /\ [][RefNext]_vars

\* Every reference was given back and every release call has returned.
AllReleased == HeldTotal(threads) = 0 /\ \A i \in Threads : threads[i].pc = "idle"

\* C11: for every interleaving of add_ref and release calls by several
\* threads on one task (each call made through a reference the caller
\* owns), the allocation is freed at most once, and exactly once when all
\* references are given back; the release that frees is the one whose
\* fetch_sub moved the counter from 1 to 0, it returns 1 and every other
\* release returns 0; the counter is never touched after the free.
C11_FreedOnceByLastRelease ==
    /\ cell.frees <= 1
    /\ cell.frees = cell.ones
    /\ ~cell.after_free
    /\ cell.alloc = "freed" => cell.ref_count = 0
    /\ AllReleased => (cell.alloc = "freed" /\ cell.frees = 1)
    /\ last.op = "release" =>
           /\ last.ret = 1 <=> last.old = 1
           /\ last.freed = last.ret

\* Both threads released concurrently (one returned 0 after the other's
\* fetch_sub), references were added on the way, and the task is freed.
C11_Witness ==
    /\ AllReleased
    /\ cell.frees = 1
    /\ last.op = "release" /\ last.ret = 0

\* C12: a task that was posted successfully and whose references the
\* scheduler gave back down to zero without ever executing it was freed by
\* that last release (which answered 1), once; its callback was destroyed,
\* once, and never invoked; and its stored context handle released the
\* context exactly once (the header of the context supplying release).
C12_UnexecutedTaskDestroyed ==
    \A t \in Tasks :
        (tasks[t].result = "Ok" /\ tasks[t].sched = 0 /\ tasks[t].executes = 0) =>
            /\ tasks[t].alloc = "freed" /\ tasks[t].frees = 1
            /\ tasks[t].ref_count = 0
            /\ tasks[t].destroyed = 1 /\ tasks[t].invoked = 0
            /\ handles[tasks[t].v8_context].state = "dropped"
            /\ vtable[Ctx(State, t)].release =>
                   handles[tasks[t].v8_context].releases = 1
            /\ (last.op = "release" /\ last.task = t) =>
                   (last.ret = 1 /\ last.made = OnlyContextDropped(Ctx(State, t)))

\* The scheduler gave back its last reference on a posted task it never
\* executed, and the context was released by that.
C12_Witness ==
    \E t \in Tasks :
        /\ tasks[t].result = "Ok" /\ tasks[t].sched = 0 /\ tasks[t].executes = 0
        /\ last.op = "release" /\ last.task = t
        /\ calls[Ctx(State, t)].add_ref = 0
        /\ calls[Ctx(State, t)].release = 1
        /\ handles[tasks[t].v8_context].releases = 1

\* --------------------------------------------- strings of the runtime
\* UTF-16 code units and the characters they encode, by their hex names:
\* a letter, a surrogate pair with the character it encodes, and U+FFFD.
Letter == "0061"
HighSurrogate == "D834"
LowSurrogate == "DD1E"
PairChar == "1D11E"
Replacement == "FFFD"
IsSurrogate(u) == u \in {HighSurrogate, LowSurrogate}

\* String::from_utf16_lossy: a well-formed pair is one character, a
\* surrogate on its own becomes U+FFFD, any other unit is its character.
RECURSIVE from_utf16_lossy(_)
from_utf16_lossy(u) ==
    IF u = <<>> THEN <<>>
    ELSE IF Len(u) >= 2 /\ u[1] = HighSurrogate /\ u[2] = LowSurrogate
         THEN <<PairChar>> \o from_utf16_lossy(SubSeq(u, 3, Len(u)))
    ELSE IF IsSurrogate(u[1])
         THEN <<Replacement>> \o from_utf16_lossy(Tail(u))
    ELSE <<u[1]>> \o from_utf16_lossy(Tail(u))

\* A cef_string_userfree_t as an accessor returns it: a null pointer, or a
\* cef_string_t whose buffer may be null.
NullStr == [ptr |-> NULL, str_null |-> TRUE, units |-> <<>>]
NoBufferStr == [ptr |-> "str", str_null |-> TRUE, units |-> <<>>]
CefStr(units) == [ptr |-> "str", str_null |-> FALSE, units |-> units]

\* string_from_cef: empty for a null buffer or length 0, else the lossy
\* conversion of the units.
string_from_cef(cs) ==
    IF cs.str_null \/ Len(cs.units) = 0 THEN <<>> ELSE from_utf16_lossy(cs.units)

\* string_from_cef_userfree: empty for a null pointer, else string_from_cef
\* (and the string is freed).
string_from_cef_userfree(cs) ==
    IF cs.ptr = NULL THEN <<>> ELSE string_from_cef(cs)

\* ----------------------------------------- CefV8Value::execute_function
CefError_V8FunctionExecutionFailed == "V8FunctionExecutionFailed"
CefError_V8Exception == "V8Exception"

\* The entries of a function value that execute_function goes through, and
\* those of an exception object, each an Option.
FuncVts == [execute_function : BOOLEAN, has_exception : BOOLEAN,
            get_exception : BOOLEAN, clear_exception : BOOLEAN]
ExcVts == [get_message : BOOLEAN, get_script_resource_name : BOOLEAN,
           get_line_number : BOOLEAN, get_start_column : BOOLEAN,
           release : BOOLEAN]
FullExcVt == [get_message |-> TRUE, get_script_resource_name |-> TRUE,
              get_line_number |-> TRUE, get_start_column |-> TRUE,
              release |-> TRUE]

Messages == {NullStr, NoBufferStr, CefStr(<<Letter>>), CefStr(<<HighSurrogate>>)}
Scripts == {NullStr, CefStr(<<Letter, Letter>>)}
Lines == {0, 7}
Columns == {3}

\* What get_exception answers: null, or an exception object.
NullExc == [ptr |-> NULL, vt |-> FullExcVt, message |-> NullStr,
            script |-> NullStr, line |-> 0, column |-> 3]
ExcObjects == [ptr : {"exc"}, vt : ExcVts, message : Messages, script : Scripts,
               line : Lines, column : Columns]

\* The value of a CefResult<CefV8Value>, all variants in one shape.
Outcome(kind, ptr) == [kind |-> kind, ptr |-> ptr, message |-> <<>>,
                       script |-> <<>>, line |-> 0, column |-> 0]

\* A foreign entry is called when the Option is Some.
Called(name, supplied) == IF supplied THEN <<name>> ELSE <<>>

error_from_exception_ptr_swapped(exc) ==
    IF from_raw_result(exc.ptr) # "Ok"
    THEN [error |-> Outcome(CefError_V8FunctionExecutionFailed, NULL),
          log |-> <<>>, releases |-> 0]
    ELSE [error |-> [kind |-> CefError_V8Exception, ptr |-> NULL,
                     message |-> IF exc.vt.get_script_resource_name
                                 THEN string_from_cef_userfree(exc.script) ELSE <<>>,
                     script |-> IF exc.vt.get_message
                                THEN string_from_cef_userfree(exc.message) ELSE <<>>,
                     line |-> IF exc.vt.get_start_column THEN exc.column ELSE 0,
                     column |-> IF exc.vt.get_line_number THEN exc.line ELSE 0],
          log |-> Called("get_message", exc.vt.get_message)
                  \o Called("get_script_resource_name", exc.vt.get_script_resource_name)
                  \o Called("get_line_number", exc.vt.get_line_number)
                  \o Called("get_start_column", exc.vt.get_start_column)
                  \o Called("release", exc.vt.release),
          releases |-> IF exc.vt.release THEN 1 ELSE 0]

error_from_exception_ptr_leaks(exc) ==
    IF from_raw_result(exc.ptr) # "Ok"
    THEN [error |-> Outcome(CefError_V8FunctionExecutionFailed, NULL),
          log |-> <<>>, releases |-> 0]
    ELSE [error |-> [kind |-> CefError_V8Exception, ptr |-> NULL,
                     message |-> IF exc.vt.get_message
                                 THEN string_from_cef_userfree(exc.message) ELSE <<>>,
                     script |-> IF exc.vt.get_script_resource_name
                                THEN string_from_cef_userfree(exc.script) ELSE <<>>,
                     line |-> IF exc.vt.get_line_number THEN exc.line ELSE 0,
                     column |-> IF exc.vt.get_start_column THEN exc.column ELSE 0],
          log |-> Called("get_message", exc.vt.get_message)
                  \o Called("get_script_resource_name", exc.vt.get_script_resource_name)
                  \o Called("get_line_number", exc.vt.get_line_number)
                  \o Called("get_start_column", exc.vt.get_start_column),
          releases |-> 0]

error_from_exception_ptr_null_is_exception(exc) ==
    [error |-> [kind |-> CefError_V8Exception, ptr |-> NULL,
                message |-> IF exc.vt.get_message
                            THEN string_from_cef_userfree(exc.message) ELSE <<>>,
                script |-> IF exc.vt.get_script_resource_name
                           THEN string_from_cef_userfree(exc.script) ELSE <<>>,
                line |-> IF exc.vt.get_line_number THEN exc.line ELSE 0,
                column |-> IF exc.vt.get_start_column THEN exc.column ELSE 0],
     log |-> Called("get_message", exc.vt.get_message)
             \o Called("get_script_resource_name", exc.vt.get_script_resource_name)
             \o Called("get_line_number", exc.vt.get_line_number)
             \o Called("get_start_column", exc.vt.get_start_column)
             \o Called("release", exc.vt.release),
     releases |-> IF exc.vt.release THEN 1 ELSE 0]

\* error_from_exception_ptr: from_raw of the pointer (a null one gives
\* V8FunctionExecutionFailed); each field through its accessor, or the
\* default when the accessor is None; the handle is dropped on return,
\* which calls release when the header has it.
error_from_exception_ptr(exc) ==
    IF from_raw_result(exc.ptr) # "Ok"
    THEN [error |-> Outcome(CefError_V8FunctionExecutionFailed, NULL),
          log |-> <<>>, releases |-> 0]
    ELSE [error |-> [kind |-> CefError_V8Exception, ptr |-> NULL,
                     message |-> IF exc.vt.get_message
                                 THEN string_from_cef_userfree(exc.message) ELSE <<>>,
                     script |-> IF exc.vt.get_script_resource_name
                                THEN string_from_cef_userfree(exc.script) ELSE <<>>,
                     line |-> IF exc.vt.get_line_number THEN exc.line ELSE 0,
                     column |-> IF exc.vt.get_start_column THEN exc.column ELSE 0],
          log |-> Called("get_message", exc.vt.get_message)
                  \o Called("get_script_resource_name", exc.vt.get_script_resource_name)
                  \o Called("get_line_number", exc.vt.get_line_number)
                  \o Called("get_start_column", exc.vt.get_start_column)
                  \o Called("release", exc.vt.release),
          releases |-> IF exc.vt.release THEN 1 ELSE 0]

\* An argument (or this) as the caller passes it: a live handle on a value.
ArgHandle == LiveHandle("value", "from_raw")
\* Self::into_raw on an argument; Self::as_raw on this.
arg_into_raw(a) == [a EXCEPT !.state = "forgotten"]
arg_as_raw(a) == [a EXCEPT !.borrows = 1]
\* A handle the function still owns when it returns is dropped (release).
scope_end(a) ==
    IF a.state = "live"
    THEN [a EXCEPT !.state = "dropped", !.releases = @ + 1]
    ELSE a
\* The release calls that makes, one per argument still owned.
RECURSIVE ReleaseLogUpTo(_, _)
ReleaseLogUpTo(args, n) ==
    IF n = 0 THEN <<>>
    ELSE ReleaseLogUpTo(args, n - 1)
         \o Called("release_arg", args[n].state = "live")
ReleaseLog(args) == ReleaseLogUpTo(args, Len(args))

execute_function_borrows_args(E) ==
    LET called == E.vt.execute_function
        raw_retval == IF called THEN E.retval ELSE NULL
        pending == called /\ E.throws
        args == [i \in 1..E.nargs |-> arg_as_raw(ArgHandle)]
        this == IF E.has_this THEN arg_as_raw(ArgHandle) ELSE NoHandle
        dropped == [i \in 1..E.nargs |-> scope_end(args[i])]
        base == [args |-> dropped, this |-> this,
                 callee_released |-> IF called /\ E.callee_releases THEN 1 ELSE 0]
        log1 == Called("execute_function", called)
        log9 == ReleaseLog(args)
    IN IF raw_retval # NULL
       THEN base @@ [result |-> Outcome(from_raw_result(raw_retval), raw_retval),
                     log |-> log1 \o log9, pending |-> pending]
       ELSE LET has_exception == E.vt.has_exception /\ pending
                log2 == log1 \o Called("has_exception", E.vt.has_exception)
            IN IF has_exception
               THEN LET exception_ptr == IF E.vt.get_exception THEN E.exc ELSE NullExc
                        r == error_from_exception_ptr(exception_ptr)
                    IN base @@ [result |-> r.error,
                                log |-> log2 \o Called("get_exception", E.vt.get_exception)
                                        \o r.log
                                        \o Called("clear_exception", E.vt.clear_exception)
                                        \o log9,
                                pending |-> pending /\ ~E.vt.clear_exception]
               ELSE base @@ [result |-> Outcome(CefError_V8FunctionExecutionFailed, NULL),
                             log |-> log2 \o log9, pending |-> pending]

\* CefV8Value::execute_function.  E is the call and the runtime it meets:
\* the entries of the function value (vt), whether this is given, the
\* number of arguments, what the callee returns (retval), whether it leaves
\* an exception pending (throws) and whether it releases the arguments it
\* was handed, and the exception object get_exception answers (exc).  The
\* value is the result, the foreign calls made in order (log), whether an
\* exception is pending afterwards, and the handles afterwards.
execute_function(E) ==
    LET called == E.vt.execute_function
        raw_retval == IF called THEN E.retval ELSE NULL
        pending == called /\ E.throws
        args == [i \in 1..E.nargs |-> arg_into_raw(ArgHandle)]
        this == IF E.has_this THEN arg_as_raw(ArgHandle) ELSE NoHandle
        dropped == [i \in 1..E.nargs |-> scope_end(args[i])]
        base == [args |-> dropped, this |-> this,
                 callee_released |-> IF called /\ E.callee_releases THEN 1 ELSE 0]
        log1 == Called("execute_function", called)
        log9 == ReleaseLog(args)
    IN IF raw_retval # NULL
       THEN base @@ [result |-> Outcome(from_raw_result(raw_retval), raw_retval),
                     log |-> log1 \o log9, pending |-> pending]
       ELSE LET has_exception == E.vt.has_exception /\ pending
                log2 == log1 \o Called("has_exception", E.vt.has_exception)
            IN IF has_exception
               THEN LET exception_ptr == IF E.vt.get_exception THEN E.exc ELSE NullExc
                        r == error_from_exception_ptr(exception_ptr)
                    IN base @@ [result |-> r.error,
                                log |-> log2 \o Called("get_exception", E.vt.get_exception)
                                        \o r.log
                                        \o Called("clear_exception", E.vt.clear_exception)
                                        \o log9,
                                pending |-> pending /\ ~E.vt.clear_exception]
               ELSE base @@ [result |-> Outcome(CefError_V8FunctionExecutionFailed, NULL),
                             log |-> log2 \o log9, pending |-> pending]

Retvals == {NULL, "ret"}
Calls == [vt : FuncVts, has_this : BOOLEAN, nargs : 0..MaxArgs, retval : Retvals,
          throws : BOOLEAN, callee_releases : BOOLEAN,
          exc : ExcObjects \cup {NullExc}]

\* Inputs execute_function never reads take one value.
Canonical(E) ==
    /\ ~E.vt.execute_function => (E.retval = NULL /\ ~E.throws /\ ~E.callee_releases)
    /\ E.nargs = 0 => ~E.callee_releases
    /\ (E.retval # NULL \/ ~E.throws \/ ~E.vt.has_exception) =>
           (E.vt.get_exception /\ E.vt.clear_exception /\ E.exc = NullExc)
    /\ E.retval # NULL => E.vt.has_exception
    /\ ~E.vt.get_exception => E.exc = NullExc

CanonicalCalls == {E \in Calls : Canonical(E)}

V8Init == Init /\ vtable["ctx_a"] = FullVt

\* One call of execute_function on a function value.
ExecuteFunction(E) ==
    /\ v8.phase = "idle"
    /\ v8' = [phase |-> "done", env |-> E, out |-> execute_function(E)]
    /\ last' = [op |-> "execute_function"]
    /\ UNCHANGED <<handleVars, refVars, reg>>

\* The caller asks the function value whether an exception is pending.
HasException ==
    /\ v8.phase = "done"
    /\ v8.env.vt.has_exception
    /\ last' = [op |-> "has_exception",
                answer |-> IF v8.out.pending THEN 1 ELSE 0]
    /\ UNCHANGED <<handleVars, refVars, v8, reg>>

V8Next ==
    \/ v8.phase = "idle" /\ \E E \in CanonicalCalls : ExecuteFunction(E)
    \/ HasException

\* The behaviours of a caller of execute_function.
V8Spec == V8Init /\ [][V8Next]_vars

\* What the foreign call returned, whether an exception is pending after
\* it, and what an exception query then reports, in the call recorded in v8.
ReturnPointer == IF v8.env.vt.execute_function THEN v8.env.retval ELSE NULL
ExceptionPending == v8.env.vt.execute_function /\ v8.env.throws
QueryReportsPending == v8.env.vt.has_exception /\ ExceptionPending
\* The exception object the bridge obtained (NullExc when it got none).
ObtainedException == IF v8.env.vt.get_exception THEN v8.env.exc ELSE NullExc
\* Positions of a call in the log.
Positions(log, name) == {i \in 1..Len(log) : log[i] = name}
Accessors == {"get_message", "get_script_resource_name", "get_line_number",
              "get_start_column"}

\* C13 as stated: a non-null return gives Ok with a handle on exactly that
\* pointer, without add_ref and without an exception query; a null return
\* with no exception pending gives ExecutionFailed; a null return with an
\* exception pending gives ScriptException whose message, script, line and
\* column are those of the exception object.
C13_OutcomeByReturnAndPending ==
    v8.phase = "done" =>
        /\ ReturnPointer # NULL =>
               /\ v8.out.result = Outcome("Ok", ReturnPointer)
               /\ v8.out.log = <<"execute_function">>
        /\ (ReturnPointer = NULL /\ ~ExceptionPending) =>
               v8.out.result.kind = CefError_V8FunctionExecutionFailed
        /\ (ReturnPointer = NULL /\ ExceptionPending) =>
               /\ v8.out.result.kind = CefError_V8Exception
               /\ v8.out.result.message = string_from_cef_userfree(v8.env.exc.message)
               /\ v8.out.result.script = string_from_cef_userfree(v8.env.exc.script)
               /\ v8.out.result.line = v8.env.exc.line
               /\ v8.out.result.column = v8.env.exc.column

\* C13 as amended: a non-null return gives Ok with a handle on exactly that
\* pointer, without add_ref and without an exception query; a null return
\* for which the exception query reports nothing pending (or cannot be
\* made) gives ExecutionFailed; a null return with an exception reported
\* pending gives ScriptException when get_exception yields an exception
\* object, and ExecutionFailed when it yields null or is absent; the
\* message and script of the ScriptException are the object's strings read
\* through the string-extraction path (empty for an absent accessor or a
\* null string), its line and column the object's (0 for an absent
\* accessor).
C13_OutcomeByReturnQueryAndObject ==
    v8.phase = "done" =>
        /\ ReturnPointer # NULL =>
               /\ v8.out.result = Outcome("Ok", ReturnPointer)
               /\ v8.out.log = <<"execute_function">>
        /\ (ReturnPointer = NULL /\ ~QueryReportsPending) =>
               v8.out.result = Outcome(CefError_V8FunctionExecutionFailed, NULL)
        /\ (ReturnPointer = NULL /\ QueryReportsPending /\ ObtainedException.ptr = NULL) =>
               v8.out.result = Outcome(CefError_V8FunctionExecutionFailed, NULL)
        /\ (ReturnPointer = NULL /\ QueryReportsPending /\ ObtainedException.ptr # NULL) =>
               LET x == ObtainedException
               IN /\ v8.out.result.kind = CefError_V8Exception
                  /\ v8.out.result.message =
                         IF x.vt.get_message /\ x.message.ptr # NULL /\ ~x.message.str_null
                         THEN from_utf16_lossy(x.message.units) ELSE <<>>
                  /\ v8.out.result.script =
                         IF x.vt.get_script_resource_name /\ x.script.ptr # NULL
                            /\ ~x.script.str_null
                         THEN from_utf16_lossy(x.script.units) ELSE <<>>
                  /\ v8.out.result.line = IF x.vt.get_line_number THEN x.line ELSE 0
                  /\ v8.out.result.column = IF x.vt.get_start_column THEN x.column ELSE 0

\* A null return with an exception pending gave a ScriptException carrying
\* the message, script, line and column of the exception object.
C13_Witness ==
    /\ v8.phase = "done"
    /\ ReturnPointer = NULL /\ QueryReportsPending
    /\ v8.out.result = [kind |-> CefError_V8Exception, ptr |-> NULL,
                        message |-> <<Letter>>, script |-> <<Letter, Letter>>,
                        line |-> 7, column |-> 3]

\* The call went down the path of a null return with an exception reported
\* pending.
OnExceptionPath == v8.phase = "done" /\ ReturnPointer = NULL /\ QueryReportsPending
\* The reads of the exception's fields come first, then its one release.
ReadsThenRelease(log) ==
    /\ Cardinality(Positions(log, "release")) = 1
    /\ \A i \in 1..Len(log) : \A j \in Positions(log, "release") :
           log[i] \in Accessors => i < j

\* C14 as stated: on the path of a null return with a pending exception,
\* execute_function reads the exception's fields first, then releases the
\* exception object exactly once, then clears the pending exception; after
\* it returned, an exception query on the function value reports nothing
\* pending.
C14_ReadReleaseClear ==
    /\ OnExceptionPath =>
           /\ (ObtainedException.ptr # NULL /\ ObtainedException.vt.release) =>
                  ReadsThenRelease(v8.out.log)
           /\ Positions(v8.out.log, "clear_exception") = {Len(v8.out.log)}
           /\ ~v8.out.pending
    /\ (OnExceptionPath /\ last.op = "has_exception") => last.answer = 0

\* C14 as amended: on that path execute_function reads the exception's
\* fields first, then releases the exception object exactly once; then, if
\* the function value supplies clear_exception, it clears the pending
\* exception as its last call and a later exception query reports nothing
\* pending; if the entry is absent no clear is made and the exception
\* stays pending.
C14_ReadReleaseClearIfSupplied ==
    /\ OnExceptionPath =>
           /\ (ObtainedException.ptr # NULL /\ ObtainedException.vt.release) =>
                  ReadsThenRelease(v8.out.log)
           /\ v8.env.vt.clear_exception =>
                  /\ Positions(v8.out.log, "clear_exception") = {Len(v8.out.log)}
                  /\ ~v8.out.pending
           /\ ~v8.env.vt.clear_exception =>
                  /\ Positions(v8.out.log, "clear_exception") = {}
                  /\ v8.out.pending
    /\ (OnExceptionPath /\ last.op = "has_exception") =>
           (last.answer = 0 <=> v8.env.vt.clear_exception)

\* On that path all four fields were read, the exception object released
\* and the exception cleared, and the caller's query then reported nothing.
C14_Witness ==
    /\ OnExceptionPath
    /\ v8.out.log = <<"execute_function", "has_exception", "get_exception",
                      "get_message", "get_script_resource_name",
                      "get_line_number", "get_start_column", "release",
                      "clear_exception">>
    /\ last.op = "has_exception" /\ last.answer = 0

\* C15: execute_function hands every argument over to the callee and only
\* borrows this and the function value: the bridge makes no release (and no
\* add_ref) call on an argument or on this, on the success path and on
\* every error path, so when the callee releases each argument once, each
\* argument is released exactly once.
C15_ArgumentsHandedOver ==
    v8.phase = "done" =>
        /\ Range(v8.out.log) \subseteq
               {"execute_function", "has_exception", "get_exception",
                "clear_exception", "release"} \cup Accessors
        /\ \A i \in 1..v8.env.nargs :
               /\ v8.out.args[i].state = "forgotten"
               /\ v8.out.args[i].releases = 0
               /\ (v8.env.vt.execute_function /\ v8.env.callee_releases) =>
                      v8.out.args[i].releases + v8.out.callee_released = 1
        /\ v8.out.this.releases = 0
        /\ v8.env.has_this => (v8.out.this.state = "live" /\ v8.out.this.borrows = 1)

\* A call with this and two arguments, whose callee released them, ended
\* in a ScriptException.
C15_Witness ==
    /\ v8.phase = "done"
    /\ v8.env.has_this /\ v8.env.nargs >= 2 /\ v8.env.callee_releases
    /\ v8.out.callee_released = 1
    /\ v8.out.result.kind = CefError_V8Exception

\* ------------------------------------------------- callback registries
\* LOGGING_CALLBACK (logger.rs) and the callback of SMTC_CONTEXT
\* (smtc_core.rs), one of them per behaviour (reg.kind).  The event slot
\* exists while SMTC_CONTEXT is Some (reg.smtc).  reg.listener: a logging
\* callback is registered while the event registry is at work, so that the
\* records its handlers emit at warn, error or info level are dispatched by
\* the tracing layer.
Callers == 1..MaxCallers
\* Caller i passes its own function value, and its own context is the
\* current one on its thread (or none is).
FnPtrs == <<"fn_1", "fn_2", "fn_3">>
CtxPtrs == <<"ctx_1", "ctx_2", "ctx_3">>
FnOf(i) == FnPtrs[i]
CtxOf(i) == CtxPtrs[i]

NoPair == [ctx |-> NULL, fn |-> NULL]
Idle == [op |-> "idle"]

\* What one step does to the foreign runtime, in order: <<call, object>>
\* for add_ref and release on a context or a function value, from_raw (a
\* reference taken over, no call), get_current_context, resolve (the runner
\* for the renderer thread), post, create_string, execute, and trace (a
\* record handed to the tracing layer while a logging callback listens:
\* the layer clones the logging context and posts a task of its own).
NoneMade == <<>>
CallsOf(made, call) == {n \in 1..Len(made) : made[n][1] = call}
CallsOn(made, call, o) == {n \in 1..Len(made) : made[n] = <<call, o>>}
\* The references the step added to those the bridge holds on object o:
\* one for each pointer taken over and for each add_ref, less the releases.
RefsGained(made, o) ==
    Cardinality(CallsOn(made, "from_raw", o))
    + Cardinality(CallsOn(made, "add_ref", o))
    - Cardinality(CallsOn(made, "release", o))

\* Dropping a registration drops its two fields in order: the context
\* handle and the function handle release once each.
DropPair(p) ==
    IF p = NoPair THEN NoneMade
    ELSE << <<"release", p.ctx>>, <<"release", p.fn>> >>

\* warn!, error! or info! in a handler of the event registry.
Traced(R) ==
    IF R.kind = "event" /\ R.listener THEN << <<"trace", "log">> >> ELSE NoneMade

\* The slot as a handler sees it under the lock: for the event registry
\* guard.as_ref().and_then(|ctx| ctx.callback.as_ref()).
Registered(R) == IF R.smtc THEN R.slot ELSE NoPair

\* A change of the slot: the tasks in flight that captured the slot as it
\* was are marked.
Touch(R) ==
    [R EXCEPT !.queue = [n \in 1..Len(R.queue) |-> [R.queue[n] EXCEPT !.stale = TRUE]],
              !.jobs = [i \in Callers |->
                           IF R.jobs[i].op = "dispatch"
                           THEN [R.jobs[i] EXCEPT !.stale = TRUE]
                           ELSE R.jobs[i]]]

\* CefV8Context::current(): from_raw of what the runtime answers.
current(cur) ==
    << <<"get_current_context", cur>> >>
    \o (IF from_raw_result(cur) = "Ok" THEN << <<"from_raw", cur>> >> ELSE <<>>)

\* logger::register_callback, lines 38-44: from_raw of the pointer, then
\* current(); the pair stores a clone of the function handle, and the
\* handle from_raw made is dropped when the closure returns.
logger_build(ptr, cur) ==
    IF from_raw_result(ptr) # "Ok"
    THEN [result |-> from_raw_result(ptr), pair |-> NoPair, made |-> NoneMade]
    ELSE IF from_raw_result(cur) # "Ok"
    THEN [result |-> from_raw_result(cur), pair |-> NoPair,
          made |-> << <<"from_raw", ptr>> >> \o current(cur)
                   \o << <<"release", ptr>> >>]
    ELSE [result |-> "Ok", pair |-> [ctx |-> cur, fn |-> ptr],
          made |-> << <<"from_raw", ptr>> >> \o current(cur)
                   \o << <<"add_ref", ptr>>, <<"release", ptr>> >>]

\* register_event_callback, lines 115-122: current() first, then from_raw
\* of the pointer; an error of from_raw drops the context handle.
event_build(ptr, cur) ==
    IF from_raw_result(cur) # "Ok"
    THEN [result |-> from_raw_result(cur), pair |-> NoPair, made |-> current(cur)]
    ELSE IF from_raw_result(ptr) # "Ok"
    THEN [result |-> from_raw_result(ptr), pair |-> NoPair,
          made |-> current(cur) \o << <<"release", cur>> >>]
    ELSE [result |-> "Ok", pair |-> [ctx |-> cur, fn |-> ptr],
          made |-> current(cur) \o << <<"from_raw", ptr>> >>]

\* logger::register_callback, lines 46-62: under the lock, Some(callback)
\* on success, None on failure (eprintln of the error).
logger_store(R, b) ==
    IF b.result = "Ok"
    THEN [R |-> Touch([R EXCEPT !.slot = b.pair]), made |-> DropPair(R.slot),
          report |-> "none"]
    ELSE [R |-> Touch([R EXCEPT !.slot = NoPair]), made |-> DropPair(R.slot),
          report |-> "stderr"]

event_store_leaks_old(R, b) ==
    IF R.smtc
    THEN IF b.result = "Ok"
         THEN [R |-> Touch([R EXCEPT !.slot = b.pair]), made |-> NoneMade,
               report |-> "none"]
         ELSE [R |-> R, made |-> Traced(R), report |-> "log"]
    ELSE [R |-> R, made |-> DropPair(b.pair) \o Traced(R), report |-> "log"]

\* register_event_callback, lines 124-139: under the lock, with SMTC
\* initialized, Some(cb) on success and only error! on failure; with SMTC
\* not initialized only warn!, and the pair just built is dropped on return.
event_store(R, b) ==
    IF R.smtc
    THEN IF b.result = "Ok"
         THEN [R |-> Touch([R EXCEPT !.slot = b.pair]), made |-> DropPair(R.slot),
               report |-> "none"]
         ELSE [R |-> R, made |-> Traced(R), report |-> "log"]
    ELSE [R |-> R, made |-> Traced(R) \o DropPair(b.pair), report |-> "log"]

logger_clear_twice(R) ==
    [R |-> Touch([R EXCEPT !.slot = NoPair]),
     made |-> DropPair(R.slot) \o DropPair(R.slot)]

\* logger::clear_callback: None when the slot is Some.
logger_clear(R) ==
    IF R.slot # NoPair
    THEN [R |-> Touch([R EXCEPT !.slot = NoPair]), made |-> DropPair(R.slot)]
    ELSE [R |-> R, made |-> NoneMade]

\* smtc_core::clear_callback: callback = None when SMTC is initialized,
\* error! otherwise.
event_clear(R) ==
    IF R.smtc
    THEN [R |-> IF R.slot # NoPair THEN Touch([R EXCEPT !.slot = NoPair]) ELSE R,
          made |-> DropPair(R.slot)]
    ELSE [R |-> R, made |-> Traced(R)]

\* The references the bridge holds on each object after a step that made
\* the calls in made.
Refs(R, made) ==
    [o \in DOMAIN R.refs |-> R.refs[o] + RefsGained(made, o)]
Pointers == {FnPtrs[i] : i \in Callers} \cup {CtxPtrs[i] : i \in Callers}

\* The state of a registry before anything was registered: the logging
\* slot always exists; the event slot exists once SMTC is initialized.
NewRegistries ==
    {[kind |-> k, listener |-> l, smtc |-> k = "log", slot |-> NoPair,
      jobs |-> [i \in Callers |-> Idle], queue |-> <<>>,
      refs |-> [o \in Pointers |-> 0]] :
         k \in {"log", "event"}, l \in BOOLEAN} \ {r \in
    {[kind |-> "log", listener |-> TRUE, smtc |-> TRUE, slot |-> NoPair,
      jobs |-> [i \in Callers |-> Idle], queue |-> <<>>,
      refs |-> [o \in Pointers |-> 0]]} : TRUE}

RegInit ==
    /\ vtable = [o \in Objects |-> FullVt]
    /\ handles = [h \in Handles |-> NoHandle]
    /\ calls = [o \in Objects |-> NoCalls]
    /\ tasks = [t \in Tasks |-> NoTask]
    /\ aborted = FALSE
    /\ last = [op |-> "none"]
    /\ cell = NoCell
    /\ threads = [i \in Threads |-> NoThread]
    /\ v8 = NoCall
    /\ reg \in NewRegistries

\* The step of a handler: the registry after it, with the references
\* brought up to date, and what the step did.
Step(R, made, info) ==
    /\ reg' = [R EXCEPT !.refs = Refs(R, made)]
    /\ last' = info @@ [made |-> made]
    /\ UNCHANGED <<handleVars, refVars, v8>>

\* logger::register_callback by caller i, line 36: clear_callback().
RegisterClear(i, ptr) ==
    /\ reg.kind = "log"
    /\ reg.jobs[i] = Idle
    /\ LET c == logger_clear(reg)
       IN Step([c.R EXCEPT !.jobs[i] = [op |-> "register", phase |-> "cleared",
                                        ptr |-> ptr]],
               c.made, [op |-> "register_clear"])

\* register by caller i: the pair is built outside the lock.  cur is what
\* the runtime answers for the current context.
RegisterBuild(i, ptr, cur) ==
    /\ reg.kind = "log" =>
           /\ reg.jobs[i].op = "register" /\ reg.jobs[i].phase = "cleared"
           /\ ptr = reg.jobs[i].ptr
    /\ reg.kind = "event" => reg.jobs[i] = Idle
    /\ reg.kind # "none"
    /\ LET b == IF reg.kind = "log" THEN logger_build(ptr, cur)
                                    ELSE event_build(ptr, cur)
       IN Step([reg EXCEPT !.jobs[i] = [op |-> "register", phase |-> "built",
                                        result |-> b.result, pair |-> b.pair]],
               b.made, [op |-> "register_build"])

\* register by caller i: the lock is taken and the result goes to the slot.
RegisterStore(i) ==
    /\ reg.jobs[i].op = "register" /\ reg.jobs[i].phase = "built"
    /\ LET b == reg.jobs[i]
           st == IF reg.kind = "log" THEN logger_store(reg, b)
                                     ELSE event_store(reg, b)
       IN Step([st.R EXCEPT !.jobs[i] = Idle], st.made,
               [op |-> "register", result |-> b.result, report |-> st.report,
                had |-> Registered(reg) # NoPair,
                stored |-> b.result = "Ok" /\ reg.smtc])

\* inflink_register_logger and inflink_register_event_callback by caller i
\* with a null function pointer: the register function is not called.
RegisterNull(i) ==
    /\ reg.kind # "none"
    /\ reg.jobs[i] = Idle
    /\ Step(reg, NoneMade,
            [op |-> "register", result |-> from_raw_result(NULL),
             report |-> "none", had |-> Registered(reg) # NoPair,
             stored |-> FALSE])

\* clear_callback by caller i.
Clear(i) ==
    /\ reg.kind # "none"
    /\ reg.jobs[i] = Idle
    /\ LET c == IF reg.kind = "log" THEN logger_clear(reg) ELSE event_clear(reg)
       IN Step(c.R, c.made,
               [op |-> "clear", pair |-> Registered(reg),
                again |-> last.op = "clear", kept |-> c.R = reg])

\* smtc_core::initialize by caller i: info!, and a new SmtcContext with no
\* callback replaces the old one, which is dropped.
Initialize(i) ==
    /\ reg.kind = "event"
    /\ reg.jobs[i] = Idle
    /\ Step(Touch([reg EXCEPT !.smtc = TRUE, !.slot = NoPair]),
            Traced(reg) \o DropPair(reg.slot), [op |-> "initialize"])

\* smtc_core::shutdown by caller i: SMTC_CONTEXT = None drops the context
\* and its callback.
Shutdown(i) ==
    /\ reg.kind = "event"
    /\ reg.jobs[i] = Idle
    /\ reg.smtc
    /\ Step(Touch([reg EXCEPT !.smtc = FALSE, !.slot = NoPair]),
            DropPair(reg.slot), [op |-> "shutdown"])

RegistryNext ==
    \/ \E i \in Callers : \E ptr \in {NULL, FnOf(i)} : RegisterClear(i, ptr)
    \/ \E i \in Callers : \E ptr \in {NULL, FnOf(i)}, cur \in {NULL, CtxOf(i)} :
          RegisterBuild(i, ptr, cur)
    \/ \E i \in Callers : RegisterStore(i)
    \/ \E i \in Callers : RegisterNull(i)
    \/ \E i \in Callers : Clear(i)
    \/ \E i \in Callers : Initialize(i)
    \/ \E i \in Callers : Shutdown(i)

\* The behaviours of threads that register and clear, on one registry.
RegistrySpec == RegInit /\ [][RegistryNext]_vars

\* C16: whenever a register call fails (null function pointer, or no
\* current context), the slot is empty afterwards, even if it held a
\* registration before, and the failure is reported, in the logging
\* registry and in the event registry alike.
C16_FailedRegisterEmptiesSlot ==
    (last.op = "register" /\ last.result # "Ok") =>
        /\ Registered(reg) = NoPair
        /\ last.report # "none"

\* C17: after clear the slot is empty and the context and the function of
\* the registration it held were released exactly once each; a clear that
\* finds the slot empty (a second clear) changes nothing and makes no
\* release call.
C17_ClearIdempotent ==
    last.op = "clear" =>
        /\ Registered(reg) = NoPair
        /\ last.pair # NoPair =>
               /\ Cardinality(CallsOn(last.made, "release", last.pair.ctx)) = 1
               /\ Cardinality(CallsOn(last.made, "release", last.pair.fn)) = 1
               /\ Cardinality(CallsOf(last.made, "release")) = 2
        /\ last.pair = NoPair =>
               /\ last.kept
               /\ CallsOf(last.made, "release") = {}

\* A clear right after a clear: the slot, which exists, was empty already.
C17_Witness ==
    /\ last.op = "clear" /\ last.again /\ last.pair = NoPair
    /\ \E o \in Pointers : reg.refs[o] = 0 /\ reg.kind # "none"
    /\ reg.smtc

\* The handles the bridge has on object o: in the slot, in a pair built by
\* a register call that has not stored it yet, in a dispatch under way and
\* in the tasks queued.
Holds(p, o) == IF p.ctx = o \/ p.fn = o THEN 1 ELSE 0
Holders(o) ==
    Holds(reg.slot, o)
    + Cardinality({i \in Callers : /\ reg.jobs[i].op = "register"
                                   /\ reg.jobs[i].phase = "built"
                                   /\ Holds(reg.jobs[i].pair, o) = 1})
    + Cardinality({i \in Callers : /\ reg.jobs[i].op = "dispatch"
                                   /\ reg.jobs[i].ctx = o})
    + Cardinality({n \in 1..Len(reg.queue) : reg.queue[n].ctx = o})

\* C18: after any register and clear calls, concurrent ones included, the
\* slot holds at most one pair (none while SMTC is not initialized); the
\* references the bridge holds on every context and function are exactly
\* those of the handles it has, so that every pair replaced or cleared was
\* released once on its context and once on its function, and the pair
\* that is registered holds one reference on its function.
C18_OnePairOneReferenceEach ==
    reg.kind # "none" =>
        /\ \A o \in Pointers : reg.refs[o] = Holders(o)
        /\ ~reg.smtc => reg.slot = NoPair
        /\ reg.slot # NoPair => reg.refs[reg.slot.fn] >= 1
        /\ (last.op = "register" /\ last.stored /\ last.had) =>
               Cardinality(CallsOf(last.made, "release")) = 2

\* A register call replaced a registration while the register call of
\* another caller was between its steps.
C18_Witness ==
    /\ last.op = "register" /\ last.stored /\ last.had
    /\ \E i \in Callers : reg.jobs[i].op = "register"
    /\ \E o \in Pointers : reg.refs[o] = 0

\* ------------------------------------------------- delivery of events
\* The payloads a handler is given.  An SMTC event is a variant name and,
\* for Seek, a position; a tracing event is a level, a message (its
\* characters) and a target.
SmtcEvents == {[type |-> "Pause", position_ms |-> <<>>],
               [type |-> "Seek", position_ms |-> <<1500>>]}
LogEvents == {[level |-> "WARN", message |-> <<"a", "\"", "b">>, target |-> "smtc"],
              [level |-> "INFO", message |-> <<"\\">>, target |-> "ffi"]}
Payloads(kind) == IF kind = "event" THEN SmtcEvents ELSE LogEvents

\* serde_json writes a string between quotes, with the quote and the
\* backslash escaped, and an f64 with its fractional part.
escape(c) == IF c = "\"" THEN "\\\"" ELSE IF c = "\\" THEN "\\\\" ELSE c
RECURSIVE escaped(_)
escaped(chars) == IF chars = <<>> THEN ""
                  ELSE escape(Head(chars)) \o escaped(Tail(chars))
json_string(s) == "\"" \o s \o "\""
json_f64(n) == ToString(n) \o ".0"

\* serde_json::to_string of an SmtcEvent (#[serde(tag = "type")]: the
\* variant name under "type", then the variant's fields) and of a LogEntry
\* (the fields in the order of the declaration).
to_json(kind, x) ==
    IF kind = "event"
    THEN "{" \o json_string("type") \o ":" \o json_string(x.type)
         \o (IF x.position_ms = <<>> THEN ""
             ELSE "," \o json_string("position_ms") \o ":"
                  \o json_f64(x.position_ms[1]))
         \o "}"
    ELSE "{" \o json_string("level") \o ":" \o json_string(x.level)
         \o "," \o json_string("message") \o ":" \o json_string(escaped(x.message))
         \o "," \o json_string("target") \o ":" \o json_string(x.target)
         \o "}"

\* The caller that registers and clears, and the thread that dispatches.
Registrar == 1
Dispatcher == 2

snapshot_keeps_empty(R, i, x) ==
    [R |-> [R EXCEPT !.jobs[i] = [op |-> "dispatch", x |-> x, ctx |-> Registered(R).ctx,
                                  stale |-> FALSE]],
     made |-> IF Registered(R) # NoPair
              THEN << <<"add_ref", Registered(R).ctx>> >> ELSE NoneMade]

\* dispatch_event, lines 165-172 and 202-204, and on_event, lines 76-81:
\* under the lock the context of the registration is cloned; with no
\* registration nothing is taken, and dispatch_event writes a warning.
snapshot(R, i, x) ==
    IF Registered(R) # NoPair
    THEN [R |-> [R EXCEPT !.jobs[i] = [op |-> "dispatch", x |-> x,
                                       ctx |-> Registered(R).ctx, stale |-> FALSE]],
          made |-> << <<"add_ref", Registered(R).ctx>> >>]
    ELSE [R |-> R, made |-> Traced(R)]

\* What the foreign side answers to a post: no runner for the renderer
\* thread, a runner that refuses the task and leaves its reference alone,
\* a runner that takes it.
PostOutcomes == {"no_runner", "rejected", "accepted"}

post_pushes_front(R, i, outcome) ==
    LET job == R.jobs[i]
        task == [x |-> job.x, json |-> to_json(R.kind, job.x), ctx |-> job.ctx,
                 stale |-> job.stale]
    IN IF outcome = "accepted"
       THEN [R |-> [R EXCEPT !.jobs[i] = Idle, !.queue = <<task>> \o @],
             result |-> "Ok",
             made |-> << <<"get_runner", "runner">>, <<"post_task", "runner">> >>]
       ELSE [R |-> [R EXCEPT !.jobs[i] = Idle], result |-> CefError_TaskPostFailed,
             made |-> << <<"get_runner", "runner">>, <<"release", job.ctx>> >>]

post_retries(R, i, outcome) ==
    LET job == R.jobs[i]
        task == [x |-> job.x, json |-> to_json(R.kind, job.x), ctx |-> job.ctx,
                 stale |-> job.stale]
    IN IF outcome = "accepted"
       THEN [R |-> [R EXCEPT !.jobs[i] = Idle, !.queue = Append(@, task)],
             result |-> "Ok",
             made |-> << <<"get_runner", "runner">>, <<"post_task", "runner">> >>]
       ELSE [R |-> R, result |-> CefError_TaskPostFailed,
             made |-> << <<"get_runner", "runner">>, <<"post_task", "runner">>,
                         <<"get_runner", "runner">>, <<"post_task", "runner">> >>]

\* renderer_post_task_in_v8_ctx with the context cloned and the closure
\* that carries the JSON text: the runner is resolved, the task posted; a
\* task that is not taken is dropped with its context handle, and the
\* failure is logged (error! in dispatch_event, eprintln in on_event).
post(R, i, outcome) ==
    LET job == R.jobs[i]
        task == [x |-> job.x, json |-> to_json(R.kind, job.x), ctx |-> job.ctx,
                 stale |-> job.stale]
        idle == [R EXCEPT !.jobs[i] = Idle]
    IN IF outcome = "no_runner"
       THEN [R |-> idle, result |-> CefError_TaskPostFailed,
             made |-> << <<"get_runner", NULL>>, <<"release", job.ctx>> >>
                      \o Traced(R)]
       ELSE IF outcome = "rejected"
       THEN [R |-> idle, result |-> CefError_TaskPostFailed,
             made |-> << <<"get_runner", "runner">>, <<"post_task", "runner">>,
                         <<"release", job.ctx>> >> \o Traced(R)]
       ELSE [R |-> [idle EXCEPT !.queue = Append(@, task)], result |-> "Ok",
             made |-> << <<"get_runner", "runner">>, <<"post_task", "runner">> >>]

\* The calls of execute_function a task makes: no this, one argument.
RunCalls ==
    {E \in {[vt |-> [execute_function |-> e, has_exception |-> TRUE,
                      get_exception |-> TRUE, clear_exception |-> TRUE],
              has_this |-> FALSE, nargs |-> 1, retval |-> r, throws |-> t,
              callee_releases |-> FALSE, exc |-> NullExc] :
                 e \in BOOLEAN, r \in Retvals, t \in BOOLEAN} : Canonical(E)}

\* An invocation of a JavaScript function: the function, the context
\* entered, the arguments.
Invocation(fn, ctx, args) == [fn |-> fn, ctx |-> ctx, args |-> args]

closure_invokes_twice(R, t, create, E) ==
    IF Registered(R) = NoPair
    THEN [invocations |-> <<>>, result |-> "none", made |-> Traced(R)]
    ELSE [invocations |-> << Invocation(Registered(R).fn, t.ctx, <<t.json>>),
                             Invocation(Registered(R).fn, t.ctx, <<t.json>>) >>,
          result |-> execute_function(E).result.kind,
          made |-> << <<"create_string", "arg">>, <<"execute", Registered(R).fn>> >>]

closure_uses_captured(R, t, create, E) ==
    [invocations |-> << Invocation(FnOf(Registrar), t.ctx, <<t.json>>) >>,
     result |-> "Ok",
     made |-> << <<"create_string", "arg">>, <<"execute", FnOf(Registrar)>> >>]

\* The closure of the task, lines 176-197 of smtc_core.rs and 94-111 of
\* logger.rs: under the lock, with a registration in the slot, the JSON
\* text becomes a string value (create says whether the runtime makes
\* one) and the function of the registration is executed with it; every
\* failure is only logged.
closure(R, t, create, E) ==
    IF Registered(R) = NoPair
    THEN [invocations |-> <<>>, result |-> "none", made |-> Traced(R)]
    ELSE IF ~create
    THEN [invocations |-> <<>>, result |-> CefError_NullPtrReceived,
          made |-> << <<"create_string", NULL>> >> \o Traced(R)]
    ELSE LET out == execute_function(E)
         IN [invocations |-> IF E.vt.execute_function
                             THEN << Invocation(Registered(R).fn, t.ctx, <<t.json>>) >>
                             ELSE <<>>,
             result |-> out.result.kind,
             made |-> << <<"create_string", "arg">> >>
                      \o (IF E.vt.execute_function
                          THEN << <<"execute", Registered(R).fn>> >> ELSE NoneMade)
                      \o (IF out.result.kind \in {"Ok"} THEN NoneMade ELSE Traced(R))]

\* dispatch_event(x), or on_event for a tracing event x, by thread i, up
\* to the release of the lock.
Dispatch(i, x) ==
    /\ reg.kind # "none"
    /\ i = Dispatcher
    /\ reg.jobs[i] = Idle
    /\ LET s == snapshot(reg, i, x)
       IN Step(s.R, s.made,
               [op |-> "dispatch", x |-> x, had |-> Registered(reg) # NoPair,
                kept |-> s.R = reg])

\* The post of the task by thread i; the runner holds at most max tasks.
DispatchPostUpTo(i, outcome, max) ==
    /\ reg.jobs[i].op = "dispatch"
    /\ outcome = "accepted" => Len(reg.queue) < max
    /\ LET p == post(reg, i, outcome)
       IN Step(p.R, p.made,
               [op |-> "post", x |-> reg.jobs[i].x, result |-> p.result,
                queued |-> Len(p.R.queue) - Len(reg.queue)])

DispatchPost(i, outcome) == DispatchPostUpTo(i, outcome, MaxQueue)

\* The renderer runs the oldest task: execute_rust_closure enters the
\* context of the task, runs the closure and exits; the runner then
\* releases the task, which drops its context handle.
TaskRun(create, E) ==
    /\ reg.kind # "none"
    /\ reg.queue # <<>>
    /\ LET t == Head(reg.queue)
           c == closure(reg, t, create, E)
       IN Step([reg EXCEPT !.queue = Tail(@)],
               << <<"enter", t.ctx>> >> \o c.made
               \o << <<"exit", t.ctx>>, <<"release", t.ctx>> >>,
               [op |-> "run", x |-> t.x, stale |-> t.stale,
                registered |-> Registered(reg), created |-> create,
                supplied |-> E.vt.execute_function, result |-> c.result,
                invocations |-> c.invocations])

DispatchNext ==
    \/ \E ptr \in {NULL, FnOf(Registrar)} : RegisterClear(Registrar, ptr)
    \/ \E ptr \in {NULL, FnOf(Registrar)}, cur \in {NULL, CtxOf(Registrar)} :
          RegisterBuild(Registrar, ptr, cur)
    \/ RegisterStore(Registrar)
    \/ RegisterNull(Registrar)
    \/ Clear(Registrar)
    \/ Initialize(Registrar)
    \/ Shutdown(Registrar)
    \/ \E x \in Payloads(reg.kind) : Dispatch(Dispatcher, x)
    \/ \E outcome \in PostOutcomes : DispatchPost(Dispatcher, outcome)
    \/ \E create \in BOOLEAN, E \in RunCalls : TaskRun(create, E)

\* The behaviours of one registry with a thread that registers and
\* clears, a thread that dispatches and a renderer that runs each task it
\* took once.
DispatchSpec == RegInit /\ [][DispatchNext]_vars

\* The renderer gets to run the tasks it took.
DispatchLiveSpec ==
    DispatchSpec /\ WF_vars(\E create \in BOOLEAN, E \in RunCalls : TaskRun(create, E))

\* The JSON text of each payload, written out.
JsonText(x) ==
    IF "type" \in DOMAIN x
    THEN IF x.type = "Pause" THEN "{\"type\":\"Pause\"}"
         ELSE "{\"type\":\"Seek\",\"position_ms\":1500.0}"
    ELSE IF x.level = "WARN"
         THEN "{\"level\":\"WARN\",\"message\":\"a\\\"b\",\"target\":\"smtc\"}"
         ELSE "{\"level\":\"INFO\",\"message\":\"\\\\\",\"target\":\"ffi\"}"

\* A task waits in the queue of the renderer; the renderer ran the oldest.
Queued == reg.kind # "none" /\ reg.queue # <<>>
Ran == last.op = "run"

\* C19 as stated: with a scheduler that runs every posted task once, a
\* dispatch(x) that follows a register call leads to exactly one
\* invocation of the registered function, with one string argument, the
\* JSON text of x; a dispatch that follows a clear leads to none.
C19_RegisterDispatchInvokesOnce ==
    /\ last.op = "post" => last.queued = 1
    /\ (last.op = "run" /\ ~last.stale) =>
           /\ Len(last.invocations) = 1
           /\ last.invocations[1].fn = last.registered.fn
           /\ last.invocations[1].args = <<JsonText(last.x)>>
    /\ (last.op = "dispatch" /\ ~last.had) => reg.jobs[Dispatcher] = Idle

\* The steps of a delivery: the post queues one task exactly when the
\* runner takes it; the task that runs invokes the function registered at
\* that moment once, in the context the dispatch captured, with the JSON
\* text of x as its only argument, exactly when a registration is in the
\* slot, the string value was created and the function value supplies
\* execute_function, and makes no invocation otherwise; with the slot not
\* changed since the dispatch the registration is the one the dispatch
\* saw; a dispatch that finds no registration starts no post.
C19_Steps ==
    /\ last.op = "post" =>
           /\ last.queued = (IF last.result = "Ok" THEN 1 ELSE 0)
    /\ last.op = "run" =>
           /\ last.invocations =
                  (IF last.registered # NoPair /\ last.created /\ last.supplied
                   THEN << Invocation(last.registered.fn,
                                      last.invocations[1].ctx,
                                      <<JsonText(last.x)>>) >>
                   ELSE <<>>)
           /\ ~last.stale =>
                  /\ last.registered # NoPair
                  /\ last.invocations # <<>> =>
                         last.invocations[1].ctx = last.registered.ctx
    /\ (last.op = "dispatch" /\ ~last.had) => reg.jobs[Dispatcher] = Idle
    /\ (last.op = "dispatch" /\ last.had) => reg.jobs[Dispatcher].op = "dispatch"

\* C19, amended: the steps are as above in every state, and while tasks
\* wait the renderer runs the oldest, so that every task it took is run.
C19_DeliveredOnceWhenPostedCreatedAndSupplied ==
    /\ []C19_Steps
    /\ Queued ~> Ran

\* A Seek event dispatched after a registration, nothing in between, was
\* delivered in one invocation.
C19_Witness ==
    /\ last.op = "run" /\ ~last.stale
    /\ "type" \in DOMAIN last.x /\ last.x.type = "Seek"
    /\ Len(last.invocations) = 1
    /\ last.invocations[1].args = <<"{\"type\":\"Seek\",\"position_ms\":1500.0}">>

\* The calls a step made, by name.
Names(made) == {made[n][1] : n \in 1..Len(made)}

\* C20 as stated: with the slot empty, dispatch posts no task, resolves
\* no runner, makes no add_ref, release or other foreign call, queues
\* nothing and leaves the registry unchanged.
C20_EmptyDispatchNoOp ==
    (last.op = "dispatch" /\ ~last.had) =>
        /\ last.made = NoneMade
        /\ last.kept

\* C20, amended: with the slot empty, dispatch takes no reference, resolves
\* no runner, posts and queues nothing and leaves the registry unchanged;
\* dispatch_event writes a warning, which is a record for the tracing
\* layer when a logging callback is registered, and on_event does
\* nothing at all.  Every task and every invocation comes from a dispatch
\* that found a registration, so a later registration does not get the
\* event.
C20_EmptyDispatchPostsNothing ==
    /\ (last.op = "dispatch" /\ ~last.had) =>
           /\ last.kept
           /\ Names(last.made) \subseteq {"trace"}
           /\ last.made = (IF reg.kind = "event" /\ reg.listener
                           THEN << <<"trace", "log">> >> ELSE NoneMade)
    /\ reg.kind # "none" =>
           /\ \A n \in 1..Len(reg.queue) : reg.queue[n].ctx # NULL
           /\ \A i \in Callers : reg.jobs[i].op = "dispatch" => reg.jobs[i].ctx # NULL
    /\ (last.op = "run" /\ last.invocations # <<>>) =>
           last.invocations[1].ctx # NULL

\* dispatch_event found the slot of an initialized SMTC empty while a
\* logging callback listens.
C20_Witness ==
    /\ last.op = "dispatch" /\ ~last.had
    /\ reg.kind = "event" /\ reg.smtc /\ reg.listener
    /\ reg.queue = <<>>

\* C21: a task reads the slot again when it runs and invokes a function
\* only if a registration is in the slot at that moment, and then the
\* function of that registration; so a task posted before a clear (or a
\* shutdown) and run after it invokes nothing, and a function that is no
\* longer registered is never invoked.
C21_InvokesOnlyWhatIsRegisteredAtRun ==
    last.op = "run" =>
        /\ last.registered = NoPair => last.invocations = <<>>
        /\ \A n \in 1..Len(last.invocations) :
               /\ last.registered # NoPair
               /\ last.invocations[n].fn = last.registered.fn

\* A task posted while a function was registered ran after the slot had
\* been emptied, and invoked nothing.
C21_Witness ==
    /\ last.op = "run" /\ last.stale
    /\ last.registered = NoPair
    /\ last.invocations = <<>>
    /\ last.created /\ last.supplied

\* The thread a step runs on: a task runs on the renderer thread, where
\* the script also calls register, clear, initialize and shutdown; the
\* SMTC handlers and the tracing layer dispatch on the thread the event
\* came on.
ScriptingThread == "renderer"
EventThread == "event"
ThreadOf(op) == IF op \in {"dispatch", "post"} THEN EventThread ELSE ScriptingThread

\* The calls of a step that go to a context or to a function.
ObjectCalls(made) ==
    {n \in 1..Len(made) : made[n][2] \in Pointers /\ made[n][1] # "from_raw"}

\* C22: every operation on a context or a function, the add_ref of a clone
\* and the release of a drop included, is made on the scripting thread
\* inside a task; no step of a dispatch on the dispatching thread touches
\* a registered context or function.
C22_ObjectCallsOnScriptingThread ==
    (last.op \in {"dispatch", "post", "run"} /\ ObjectCalls(last.made) # {}) =>
        ThreadOf(last.op) = ScriptingThread

\* ------------------------------------------------- the registry mutex
\* The mutex of each registry, and the entries of the bridge a script
\* function can call while it runs, with the mutexes each of them locks:
\* inflink_register_event_callback (register_event_callback),
\* inflink_register_logger (clear_callback of the logger),
\* inflink_shutdown (both) and inflink_dispatch with EnableSmtc
\* (with_smtc_ctx).
MutexOf(kind) == IF kind = "event" THEN "SMTC_CONTEXT" ELSE "LOGGING_CALLBACK"
Entries == {"register_event", "register_logger", "shutdown", "command"}
LocksOf(entry) ==
    IF entry = "register_event" THEN {"SMTC_CONTEXT"}
    ELSE IF entry = "register_logger" THEN {"LOGGING_CALLBACK"}
    ELSE IF entry = "shutdown" THEN {"LOGGING_CALLBACK", "SMTC_CONTEXT"}
    ELSE {"SMTC_CONTEXT"}

\* Mutex::lock by the thread that holds the mutex does not return: it
\* blocks for ever or panics, and safe_call catches the panic.
LockAnswers == {"returns", "deadlock", "panic"}

Unlocked == "none"
Free == reg.owner = Unlocked

release_guard_late(R) == R

\* The guard of the snapshot goes out of scope at the end of the let
\* statement, before the post.
release_guard(R) == [R EXCEPT !.owner = Unlocked]

LockInit ==
    /\ vtable = [o \in Objects |-> FullVt]
    /\ handles = [h \in Handles |-> NoHandle]
    /\ calls = [o \in Objects |-> NoCalls]
    /\ tasks = [t \in Tasks |-> NoTask]
    /\ aborted = FALSE
    /\ last = [op |-> "none"]
    /\ cell = NoCell
    /\ threads = [i \in Threads |-> NoThread]
    /\ v8 = NoCall
    /\ reg \in {r @@ [owner |-> Unlocked, frame |-> Idle] : r \in NewRegistries}

\* dispatch_event(x) or on_event by thread i: the lock is taken, the
\* context cloned and the guard dropped.
DispatchLocked(i, x) ==
    /\ Free
    /\ i = Dispatcher
    /\ reg.jobs[i] = Idle
    /\ LET s == snapshot([reg EXCEPT !.owner = EventThread], i, x)
       IN Step(release_guard(s.R), s.made,
               [op |-> "dispatch", x |-> x, had |-> Registered(reg) # NoPair,
                kept |-> release_guard(s.R) = reg])

\* The renderer runs the oldest task and the closure, holding the guard,
\* executes the registered function, which calls an entry of the bridge.
TaskCall(create, E, entry) ==
    /\ Free
    /\ reg.queue # <<>>
    /\ reg.frame = Idle
    /\ LET t == Head(reg.queue)
           c == closure(reg, t, create, E)
       IN /\ c.invocations # <<>>
          /\ Step([reg EXCEPT !.owner = ScriptingThread,
                              !.frame = [op |-> "in_function", entry |-> entry,
                                         created |-> create, env |-> E,
                                         registered |-> Registered(reg)]],
                  << <<"enter", t.ctx>> >> \o c.made,
                  [op |-> "invoke", x |-> t.x, entry |-> entry,
                   invocations |-> c.invocations])

\* The entry called by the function locks its mutexes on the renderer
\* thread; its body returns or panics (a lock of the held mutex never
\* returns).  After a panic safe_call writes error!, which the tracing
\* layer takes to on_event: in a logging task that locks the held mutex
\* once more, outside any catch_unwind, and the entry does not return.
Reenter(answer) ==
    /\ reg.kind # "none"
    /\ "frame" \in DOMAIN reg
    /\ reg.frame.op = "in_function"
    /\ LET held == MutexOf(reg.kind) \in LocksOf(reg.frame.entry)
       IN /\ held => answer \in {"deadlock", "panic"}
          /\ ~held => answer \in {"returns", "panic"}
          /\ Step([reg EXCEPT !.frame.op =
                       IF answer = "deadlock" \/ (answer = "panic" /\ reg.kind = "log")
                       THEN "blocked" ELSE "returned"],
                  NoneMade,
                  [op |-> "reenter", entry |-> reg.frame.entry, answer |-> answer,
                   held |-> held])

\* The function returned: the closure drops the guard, the context is
\* exited and the runner releases the task.
TaskFinish ==
    /\ reg.kind # "none"
    /\ "frame" \in DOMAIN reg
    /\ reg.frame.op = "returned"
    /\ LET t == Head(reg.queue)
           c == closure(reg, t, reg.frame.created, reg.frame.env)
       IN Step([reg EXCEPT !.queue = Tail(@), !.owner = Unlocked, !.frame = Idle],
               << <<"exit", t.ctx>>, <<"release", t.ctx>> >>,
               [op |-> "run", x |-> t.x, stale |-> t.stale,
                registered |-> reg.frame.registered, created |-> reg.frame.created,
                supplied |-> reg.frame.env.vt.execute_function,
                result |-> c.result, invocations |-> c.invocations])

LockNext ==
    \/ Free /\ \E ptr \in {NULL, FnOf(Registrar)} : RegisterClear(Registrar, ptr)
    \/ \E ptr \in {NULL, FnOf(Registrar)}, cur \in {NULL, CtxOf(Registrar)} :
          RegisterBuild(Registrar, ptr, cur)
    \/ Free /\ RegisterStore(Registrar)
    \/ Free /\ Clear(Registrar)
    \/ Free /\ Initialize(Registrar)
    \/ Free /\ Shutdown(Registrar)
    \/ \E x \in Payloads(reg.kind) : DispatchLocked(Dispatcher, x)
    \/ \E outcome \in PostOutcomes : DispatchPost(Dispatcher, outcome)
    \/ Free /\ \E create \in BOOLEAN, E \in RunCalls : TaskRun(create, E)
    \/ \E E \in RunCalls, entry \in Entries : TaskCall(TRUE, E, entry)
    \/ \E answer \in LockAnswers : Reenter(answer)
    \/ TaskFinish

\* The behaviours of one registry with the owner of its mutex: a script
\* function may call back into the bridge while the task holds the guard.
LockSpec == LockInit /\ [][LockNext]_vars

\* C23: a dispatch does not hold the registry mutex while it posts: the
\* guard of the snapshot is dropped before the runner is resolved and its
\* post operation called, in the event path and in the logging path.
C23_PostWithoutLock ==
    last.op = "post" => reg.owner # EventThread

\* A task was posted, and taken by the runner, after the snapshot of a
\* registration.
C23_Witness ==
    /\ last.op = "post" /\ last.result = "Ok" /\ last.queued = 1
    /\ "owner" \in DOMAIN reg /\ reg.owner = Unlocked
    /\ reg.slot # NoPair

\* C28: a task never blocks on the registry mutex: it finishes and
\* releases the mutex even if the script function it invokes calls back
\* into the bridge on the same thread.
C28_TaskNeverBlocksOnMutex ==
    (reg.kind # "none" /\ "frame" \in DOMAIN reg) => reg.frame.op # "blocked"

\* ------------------------------------------------ strings, both ways
MaxChars == 3
NonAscii == "4E2D"
\* The characters of a Rust string: no surrogate is one.
Chars == {Letter, NonAscii, PairChar, Replacement}
RECURSIVE StringsUpTo(_)
StringsUpTo(n) ==
    IF n = 0 THEN {<<>>}
    ELSE LET shorter == StringsUpTo(n - 1)
         IN shorter \cup {Append(s, c) : s \in shorter, c \in Chars}
Strings == StringsUpTo(MaxChars)

encode_utf16_bmp_only(s) ==
    [n \in 1..Len(s) |-> IF s[n] = PairChar THEN Replacement ELSE s[n]]

\* str::encode_utf16: a character above U+FFFF is a surrogate pair, any
\* other character is one unit.
RECURSIVE encode_utf16(_)
encode_utf16(s) ==
    IF s = <<>> THEN <<>>
    ELSE (IF Head(s) = PairChar THEN <<HighSurrogate, LowSurrogate>> ELSE <<Head(s)>>)
         \o encode_utf16(Tail(s))

CefError_StringConversionFailed == "StringConversionFailed"

\* CefString16::from_str: the units are copied by cef_string_utf16_set,
\* which answers 1 (set_ok) or not; for no units at all the copy may have
\* no buffer (no_buffer).
from_str(s, set_ok, no_buffer) ==
    IF ~set_ok THEN [result |-> CefError_StringConversionFailed, cs |-> NullStr]
    ELSE [result |-> "Ok",
          cs |-> IF encode_utf16(s) = <<>> /\ no_buffer THEN NoBufferStr
                 ELSE CefStr(encode_utf16(s))]

\* No string was marshalled yet.
StringInit ==
    /\ vtable = [o \in Objects |-> FullVt]
    /\ handles = [h \in Handles |-> NoHandle]
    /\ calls = [o \in Objects |-> NoCalls]
    /\ tasks = [t \in Tasks |-> NoTask]
    /\ aborted = FALSE
    /\ last = [op |-> "none"]
    /\ cell = NoCell
    /\ threads = [i \in Threads |-> NoThread]
    /\ v8 = NoCall
    /\ reg = NoRegistry

\* CefV8Value::try_from_str(s) up to the foreign string.
FromStr(s, set_ok, no_buffer) ==
    /\ v8.phase = "idle"
    /\ v8' = [phase |-> "marshalled", s |-> s, out |-> from_str(s, set_ok, no_buffer)]
    /\ last' = [op |-> "from_str"]
    /\ UNCHANGED <<handleVars, refVars, reg>>

\* The string made is read back, as a borrowed string or as a userfree one.
Extract(userfree) ==
    /\ v8.phase = "marshalled"
    /\ v8.out.result = "Ok"
    /\ v8' = [phase |-> "extracted", s |-> v8.s, cs |-> v8.out.cs,
              text |-> IF userfree THEN string_from_cef_userfree(v8.out.cs)
                       ELSE string_from_cef(v8.out.cs)]
    /\ last' = [op |-> "extract", userfree |-> userfree]
    /\ UNCHANGED <<handleVars, refVars, reg>>

\* A string of the foreign side with no text is read.
ExtractEmpty(cs, userfree) ==
    /\ v8.phase = "idle"
    /\ ~userfree => cs.ptr # NULL
    /\ v8' = [phase |-> "extracted", s |-> <<>>, cs |-> cs,
              text |-> IF userfree THEN string_from_cef_userfree(cs)
                       ELSE string_from_cef(cs)]
    /\ last' = [op |-> "extract_empty", userfree |-> userfree]
    /\ UNCHANGED <<handleVars, refVars, reg>>

StringNext ==
    \/ \E s \in Strings, set_ok \in BOOLEAN, no_buffer \in BOOLEAN :
          FromStr(s, set_ok, no_buffer)
    \/ \E userfree \in BOOLEAN : Extract(userfree)
    \/ \E cs \in {NullStr, NoBufferStr, CefStr(<<>>)}, userfree \in BOOLEAN :
          ExtractEmpty(cs, userfree)

StringSpec == StringInit /\ [][StringNext]_vars

\* C24: a string marshalled to the foreign UTF-16 form (the conversion
\* having succeeded) and read back by string_from_cef or
\* string_from_cef_userfree is the string it was, the empty string and
\* text outside ASCII and outside the basic plane included; a null or
\* zero-length foreign string reads as the empty string.
C24_RoundTrip ==
    v8.phase = "extracted" =>
        /\ v8.text = v8.s
        /\ (v8.cs.ptr = NULL \/ v8.cs.str_null \/ Len(v8.cs.units) = 0) => v8.text = <<>>

\* A string with a character that takes a surrogate pair and one outside
\* ASCII came back as it was, through the userfree path.
C24_Witness ==
    /\ v8.phase = "extracted" /\ last.op = "extract" /\ last.userfree
    /\ v8.s = <<NonAscii, PairChar, Letter>>
    /\ Len(v8.cs.units) = 4
    /\ v8.text = <<NonAscii, PairChar, Letter>>

\* C25: a task goes Created, Posted, Executing, Completed or Created,
\* Posted, Dropped-unexecuted and no other way: it is executed only after a
\* successful post, it is freed in exactly one step, and a task that was
\* freed is not executed, released or freed again.
C25_TaskLifecycle ==
    \A t \in Tasks :
        /\ tasks[t].executes > 0 => tasks[t].result = "Ok"
        /\ tasks[t].frees <= 1
        /\ tasks[t].alloc = "freed" =>
               /\ tasks[t].frees = 1
               /\ tasks[t].sched = 0
               /\ tasks[t].destroyed = 1
        /\ (tasks[t].alloc = "freed" /\ tasks[t].executes = 0) => tasks[t].result = "Ok"

\* The calls of one name among those a step made.
Count(made, call) == Cardinality(CallsOf(made, call))

MaxDispatches == 2
MaxPending == 2

\* A registry with the payloads dispatched to a registration so far, those
\* the function was invoked with, and the number of those given up.
FifoInit ==
    /\ vtable = [o \in Objects |-> FullVt]
    /\ handles = [h \in Handles |-> NoHandle]
    /\ calls = [o \in Objects |-> NoCalls]
    /\ tasks = [t \in Tasks |-> NoTask]
    /\ aborted = FALSE
    /\ last = [op |-> "none"]
    /\ cell = NoCell
    /\ threads = [i \in Threads |-> NoThread]
    /\ v8 = NoCall
    /\ reg \in {r @@ [dispatched |-> <<>>, delivered |-> <<>>, given_up |-> 0] :
                   r \in NewRegistries}

\* dispatch_event(x) or on_event by thread i, up to the release of the
\* lock.
FifoDispatch(i, x) ==
    /\ i = Dispatcher
    /\ reg.jobs[i] = Idle
    /\ Len(reg.dispatched) < MaxDispatches
    /\ Registered(reg) # NoPair
    /\ LET s == snapshot(reg, i, x)
       IN Step([s.R EXCEPT !.dispatched = Append(@, x)], s.made,
               [op |-> "dispatch", x |-> x, had |-> TRUE, kept |-> FALSE])

\* The post by thread i.
FifoPost(i, outcome) ==
    /\ reg.jobs[i].op = "dispatch"
    /\ outcome = "accepted" => Len(reg.queue) < MaxPending
    /\ LET p == post(reg, i, outcome)
       IN Step([p.R EXCEPT !.given_up = IF p.result = "Ok" THEN @ ELSE @ + 1],
               p.made,
               [op |-> "post", x |-> reg.jobs[i].x, result |-> p.result,
                queued |-> Len(p.R.queue) - Len(reg.queue)])

\* The renderer dequeues the oldest task and runs it.
FifoRun(create, E) ==
    /\ reg.queue # <<>>
    /\ LET t == Head(reg.queue)
           c == closure(reg, t, create, E)
       IN Step([reg EXCEPT !.queue = Tail(@),
                           !.delivered = @ \o [n \in 1..Len(c.invocations) |-> t.x],
                           !.given_up = IF c.invocations = <<>> THEN @ + 1 ELSE @],
               << <<"enter", t.ctx>> >> \o c.made
               \o << <<"exit", t.ctx>>, <<"release", t.ctx>> >>,
               [op |-> "run", x |-> t.x, stale |-> t.stale,
                registered |-> Registered(reg), created |-> create,
                supplied |-> E.vt.execute_function, result |-> c.result,
                invocations |-> c.invocations])

\* One registration is made first and stays; then payloads are dispatched
\* by one thread and the renderer dequeues in the order of the posts.
FifoNext ==
    \/ /\ reg.dispatched = <<>> /\ reg.slot = NoPair
       /\ \/ RegisterClear(Registrar, FnOf(Registrar))
          \/ RegisterBuild(Registrar, FnOf(Registrar), CtxOf(Registrar))
          \/ RegisterStore(Registrar)
          \/ ~reg.smtc /\ reg.jobs[Registrar] = Idle /\ Initialize(Registrar)
    \/ \E x \in Payloads(reg.kind) : FifoDispatch(Dispatcher, x)
    \/ \E outcome \in PostOutcomes : FifoPost(Dispatcher, outcome)
    \/ \E create \in BOOLEAN, E \in RunCalls : FifoRun(create, E)

FifoSpec == FifoInit /\ [][FifoNext]_vars

\* a is b with some elements left out.
RECURSIVE IsSubsequence(_, _)
IsSubsequence(a, b) ==
    IF a = <<>> THEN TRUE
    ELSE IF b = <<>> THEN FALSE
    ELSE IF Head(a) = Head(b) THEN IsSubsequence(Tail(a), Tail(b))
    ELSE IsSubsequence(a, Tail(b))

\* Nothing is under way: no dispatch between its steps, no task queued.
Quiet == reg.jobs[Dispatcher] = Idle /\ reg.queue = <<>>

\* C27 as stated: with a FIFO scheduler and one registration in place, the
\* payloads one thread dispatched one after the other are delivered to the
\* function in the order of the dispatches, each exactly once.
C27_DeliveredInOrderEachOnce ==
    ("dispatched" \in DOMAIN reg /\ Quiet) => reg.delivered = reg.dispatched

\* C27, amended: the payloads delivered are delivered in the order of the
\* dispatches, none twice; when nothing is under way every payload
\* dispatched was either delivered or given up (post not taken, string not
\* created, no execute_function entry), so with nothing given up all were
\* delivered, in order, once each.
C27_DeliveredInOrderAtMostOnce ==
    "dispatched" \in DOMAIN reg =>
        /\ IsSubsequence(reg.delivered, reg.dispatched)
        /\ Quiet => Len(reg.delivered) + reg.given_up = Len(reg.dispatched)
        /\ (Quiet /\ reg.given_up = 0) => reg.delivered = reg.dispatched

\* Two different payloads were dispatched and delivered, in that order.
C27_Witness ==
    /\ "dispatched" \in DOMAIN reg
    /\ Len(reg.dispatched) = 2 /\ reg.dispatched[1] # reg.dispatched[2]
    /\ reg.delivered = reg.dispatched
    /\ last.op = "run" /\ ~last.stale

\* ------------------------------------- a registration replaced in flight
\* The script of another context registers its own function.
OtherFn == FnOf(Dispatcher)
OtherCtx == CtxOf(Dispatcher)

ReplaceNext ==
    \/ DispatchNext
    \/ RegisterClear(Registrar, OtherFn)
    \/ \E ptr \in {FnOf(Registrar), OtherFn} : RegisterBuild(Registrar, ptr, OtherCtx)

\* The behaviours of DispatchSpec with registrations made from two
\* contexts.
ReplaceSpec == RegInit /\ [][ReplaceNext]_vars

\* C29: whenever a task invokes a registered function, the context the
\* task entered is the context that function was registered with, even if
\* the registration was replaced between the dispatch and the run.
C29_InvokedInContextOfRegistration ==
    last.op = "run" =>
        \A n \in 1..Len(last.invocations) :
            /\ last.invocations[n].fn = last.registered.fn
            /\ last.invocations[n].ctx = last.registered.ctx

\* The references on the runner a step was given by the resolver (one for
\* each runner it answered) less those the step released.
RunnerRefsKept(made) ==
    Cardinality(CallsOn(made, "get_runner", "runner"))
    - Cardinality(CallsOn(made, "release", "runner"))

\* C30: the resolver answering a runner with one reference owned by the
\* caller, the count of the runner after a post is its count before it, on
\* the success path and on both failure paths: every reference obtained
\* on the runner is released.
C30_RunnerReferenceReleased ==
    last.op = "post" => RunnerRefsKept(last.made) = 0

\* ------------------------------------------- arguments without a callee
\* C31: no argument reference passed to execute_function is leaked: in
\* every outcome, the function value having no execute_function entry
\* included, each argument's reference is handed to a callee or released
\* by the bridge.
C31_NoArgumentLeaked ==
    v8.phase = "done" =>
        \A i \in 1..v8.env.nargs :
            \/ "execute_function" \in Range(v8.out.log)
            \/ v8.out.args[i].releases = 1

\* ------------------------------------- a pending exception with no object
\* The call recorded in v8 went the exception path and got no exception
\* object: get_exception answered null, or the entry is absent.
NoExceptionObject == OnExceptionPath /\ ObtainedException.ptr = NULL

\* C32 as stated: the foreign call returning null with an exception
\* pending and the exception accessor answering a null object (or being
\* absent), execute_function returns ExecutionFailed, not ScriptException,
\* still clears the pending exception, and makes no release call for the
\* missing object.
C32_NoObjectFailsAndClears ==
    NoExceptionObject =>
        /\ v8.out.result.kind = CefError_V8FunctionExecutionFailed
        /\ Positions(v8.out.log, "clear_exception") = {Len(v8.out.log)}
        /\ ~v8.out.pending
        /\ Positions(v8.out.log, "release") = {}

\* C32 as amended: in that case execute_function returns ExecutionFailed,
\* reads no field of an exception and makes no release call for the
\* missing object; it clears the pending exception as its last call when
\* the function value supplies clear_exception, and makes no clear, the
\* exception staying pending, when the entry is absent.
C32_NoObjectFailsAndClearsIfSupplied ==
    NoExceptionObject =>
        /\ v8.out.result.kind = CefError_V8FunctionExecutionFailed
        /\ Positions(v8.out.log, "release") = {}
        /\ Range(v8.out.log) \cap Accessors = {}
        /\ v8.env.vt.clear_exception =>
               /\ Positions(v8.out.log, "clear_exception") = {Len(v8.out.log)}
               /\ ~v8.out.pending
        /\ ~v8.env.vt.clear_exception =>
               /\ Positions(v8.out.log, "clear_exception") = {}
               /\ v8.out.pending

\* get_exception was called and answered null; the call ended in
\* ExecutionFailed with the exception cleared.
C32_Witness ==
    /\ NoExceptionObject
    /\ v8.env.vt.get_exception /\ v8.env.exc = NullExc
    /\ v8.out.log = <<"execute_function", "has_exception", "get_exception",
                      "clear_exception">>
    /\ v8.out.result.kind = CefError_V8FunctionExecutionFailed

\* ------------------------------------------------- metadata and covers
\* update_metadata (smtc_core.rs) and the cover tasks it spawns on
\* TOKIO_RUNTIME, a multi-thread runtime.  In this component reg is the
\* SMTC_CONTEXT: whether it is Some (smtc), its cover_task (the number of
\* the job whose JoinHandle it holds, 0 for None), the spawned tasks
\* (covers) and what the media session shows (session).
MaxUpdates == 3
Songs == {"a", "b"}
CoverSources == {"none", "url"}
MetadataPayloads == [song : Songs, cover : CoverSources]
NoSession == [song |-> "none", thumbnail |-> FALSE]

\* JoinHandle::abort: a task that has not passed its last await point
\* (not polled yet, or suspended in get_cover_stream_ref) is cancelled
\* there; a task that is already in the rest of its body, which has no
\* await, is not stopped; nothing happens to a finished one.
abort(job) ==
    IF job.pc = "pending" THEN [job EXCEPT !.pc = "cancelled"] ELSE job

\* update_metadata under the SMTC_CONTEXT lock: nothing when the context
\* is None; otherwise the old handle is taken and aborted, the new task
\* spawned and its handle stored.
update_metadata(R, payload) ==
    IF ~R.smtc THEN R
    ELSE LET n == Len(R.covers) + 1
             old == IF R.cover_task = 0 THEN R.covers
                    ELSE [R.covers EXCEPT ![R.cover_task] = abort(@)]
         IN [R EXCEPT !.covers = Append(old, [pc |-> "pending", payload |-> payload,
                                              thumbnail |-> FALSE]),
                      !.cover_task = n]

\* The closure given to with_smtc_ctx in the task: title, artist, album,
\* genres and thumbnail are set and Update() called; with the context None
\* with_smtc_ctx only warns.
write_metadata(R, j) ==
    IF ~R.smtc THEN R
    ELSE [R EXCEPT !.session = [song |-> R.covers[j].payload.song,
                                thumbnail |-> R.covers[j].thumbnail]]

MetaInit ==
    /\ vtable = [o \in Objects |-> FullVt]
    /\ handles = [h \in Handles |-> NoHandle]
    /\ calls = [o \in Objects |-> NoCalls]
    /\ tasks = [t \in Tasks |-> NoTask]
    /\ aborted = FALSE
    /\ last = [op |-> "none"]
    /\ cell = NoCell
    /\ threads = [i \in Threads |-> NoThread]
    /\ v8 = NoCall
    /\ reg = [smtc |-> TRUE, cover_task |-> 0, covers |-> <<>>,
              session |-> NoSession]

\* One call of update_metadata.
UpdateMetadata(payload) ==
    /\ Len(reg.covers) < MaxUpdates
    /\ reg' = update_metadata(reg, payload)
    /\ last' = [op |-> "update_metadata", payload |-> payload,
                job |-> IF reg.smtc THEN Len(reg.covers) + 1 ELSE 0]
    /\ UNCHANGED <<handleVars, refVars, v8>>

\* A worker polls task j past get_cover_stream_ref: the cover is there
\* (or not: none given, or the download or the stream failed).
CoverFetched(j, got) ==
    /\ j \in 1..Len(reg.covers)
    /\ reg.covers[j].pc = "pending"
    /\ got => reg.covers[j].payload.cover # "none"
    /\ reg' = [reg EXCEPT !.covers[j].pc = "fetched", !.covers[j].thumbnail = got]
    /\ last' = [op |-> "fetched", job |-> j]
    /\ UNCHANGED <<handleVars, refVars, v8>>

\* Task j takes the lock in with_smtc_ctx and writes, then ends.
CoverWrite(j) ==
    /\ j \in 1..Len(reg.covers)
    /\ reg.covers[j].pc = "fetched"
    /\ reg' = [write_metadata(reg, j) EXCEPT !.covers[j].pc = "done"]
    /\ last' = [op |-> "write", job |-> j, wrote |-> reg.smtc,
                later |-> {k \in j + 1..Len(reg.covers) : reg.covers[k].pc = "done"}]
    /\ UNCHANGED <<handleVars, refVars, v8>>

\* shutdown: the context is dropped, which aborts its cover task.
MetaShutdown ==
    /\ reg.smtc
    /\ reg' = [reg EXCEPT !.smtc = FALSE, !.cover_task = 0,
                          !.covers = IF reg.cover_task = 0 THEN @
                                     ELSE [@ EXCEPT ![reg.cover_task] = abort(@)]]
    /\ last' = [op |-> "shutdown"]
    /\ UNCHANGED <<handleVars, refVars, v8>>

MetaNext ==
    \/ \E payload \in MetadataPayloads : UpdateMetadata(payload)
    \/ \E j \in 1..MaxUpdates, got \in BOOLEAN : CoverFetched(j, got)
    \/ \E j \in 1..MaxUpdates : CoverWrite(j)
    \/ MetaShutdown

MetaSpec == MetaInit /\ [][MetaNext]_vars

\* C33: in every interleaving of update_metadata calls and their cover
\* tasks, a cover task superseded by a later call never writes its
\* metadata after the later call's task has written, so that the metadata
\* last written is that of the most recent call.
C33_SupersededNeverWritesLast ==
    (last.op = "write" /\ last.wrote) => last.later = {}

\* ---------------------------------------------------- the return buffer
\* RETURN_BUFFER and inflink_dispatch (ffi.rs).  In this component reg is
\* the buffer (the allocation of the CString it holds and its text), the
\* allocations made so far, and for each host thread where it stands:
\* idle, or back from a call with the pointer it was returned.
MaxHostThreads == 2
MaxAllocs == 4
HostThreads == 1..MaxHostThreads
Commands == {"null_args", "null_command", "play", "bad_json"}
\* smtc_core::handle_command: the result as JSON text.
handle_command(cmd) == IF cmd = "bad_json" THEN "error" ELSE "success"
Freed == "freed"
\* Allocations are numbered from 1 (the CString::default() the buffer
\* starts with); the null pointer is no allocation.
NullAlloc == 0

\* inflink_dispatch on thread t: null for a null argument; otherwise the
\* command is handled, the buffer's CString replaced under the lock (the
\* old one is dropped, which frees it) and the pointer into the new one
\* returned; the guard ends with the call.
inflink_dispatch(R, t, cmd) ==
    IF cmd \in {"null_args", "null_command"}
    THEN [R EXCEPT !.host[t] = [pc |-> "returned", ptr |-> NullAlloc]]
    ELSE LET a == R.allocs + 1
         IN [R EXCEPT !.allocs = a,
                      !.buffer = [alloc |-> a, text |-> handle_command(cmd)],
                      !.host[t] = [pc |-> "returned", ptr |-> a]]

BufferInit ==
    /\ vtable = [o \in Objects |-> FullVt]
    /\ handles = [h \in Handles |-> NoHandle]
    /\ calls = [o \in Objects |-> NoCalls]
    /\ tasks = [t \in Tasks |-> NoTask]
    /\ aborted = FALSE
    /\ last = [op |-> "none"]
    /\ cell = NoCell
    /\ threads = [i \in Threads |-> NoThread]
    /\ v8 = NoCall
    /\ reg = [buffer |-> [alloc |-> 1, text |-> ""], allocs |-> 1,
              host |-> [t \in HostThreads |-> [pc |-> "idle", ptr |-> NullAlloc]]]

\* Host thread t calls inflink_dispatch and gets its pointer.
HostDispatch(t, cmd) ==
    /\ reg.host[t].pc = "idle"
    /\ reg.allocs < MaxAllocs
    /\ reg' = inflink_dispatch(reg, t, cmd)
    /\ last' = [op |-> "dispatch", thread |-> t, cmd |-> cmd,
                result |-> IF cmd \in {"null_args", "null_command"} THEN NULL
                           ELSE handle_command(cmd)]
    /\ UNCHANGED <<handleVars, refVars, v8>>

\* Host thread t copies the string it was returned.  A pointer into a
\* CString that was dropped since is dangling: what the copy reads is
\* then anything (got).
HostCopy(t, got) ==
    /\ reg.host[t].pc = "returned"
    /\ LET ptr == reg.host[t].ptr
           valid == ptr # NullAlloc /\ ptr = reg.buffer.alloc
       IN /\ ptr = NullAlloc => got = NULL
          /\ valid => got = reg.buffer.text
          /\ (ptr # NullAlloc /\ ~valid) => got # NULL
          /\ last' = [op |-> "copy", thread |-> t, ptr |-> ptr,
                      valid |-> valid, got |-> got]
    /\ reg' = [reg EXCEPT !.host[t] = [pc |-> "idle", ptr |-> NullAlloc]]
    /\ UNCHANGED <<handleVars, refVars, v8>>

BufferNext ==
    \/ \E t \in HostThreads, cmd \in Commands : HostDispatch(t, cmd)
    \/ \E t \in HostThreads, got \in {NULL, "success", "error", Freed} :
           HostCopy(t, got)

BufferSpec == BufferInit /\ [][BufferNext]_vars

\* C34: the pointer inflink_dispatch returned points at a valid result
\* string when the host copies it: no other inflink_dispatch call, on this
\* or another thread, replaced and freed the shared buffer in between.
C34_PointerValidAtCopy ==
    (last.op = "copy" /\ last.ptr # NullAlloc) => last.valid

\* ------------------------------------------------ panics at the entries
\* C35: an entry point wrapped in safe_call returns to the host normally
\* when its body panics: the panic does not cross the C boundary and the
\* entry returns its default value.
C35_PanickingEntryReturns ==
    (last.op = "reenter" /\ last.answer = "panic") => reg.frame.op = "returned"

\* ------------------------------------------------- the presence worker
\* RpcWorker and background_loop (discord.rs).  In this component reg is
\* the worker (client: whether a DiscordIpcClient is held; data;
\* is_enabled; connect_retry_count; last_sent_end_timestamp), the clock
\* (now, in milliseconds), what Discord shows for the application (shown)
\* and, for the cooldown, how many calls of connect were skipped since
\* the last failed attempt (skipped; fresh when no failure is counted).
RECONNECT_COOLDOWN_SECONDS == 5
TIMESTAMP_UPDATE_THRESHOLD_MS == 100
MaxNow == 2
MaxSeek == 1
\* The clock and the positions move in steps of half the threshold.
Tick == TIMESTAMP_UPDATE_THRESHOLD_MS \div 2
Positions_ms == {k * Tick : k \in 0..MaxSeek}
SongDuration == (MaxSeek + 1) * Tick
\* MetadataPayload: the song and its duration (none, not positive, or
\* positive).
Metadatas ==
    {[song |-> s, has_duration |-> h, duration |-> d] :
         s \in Songs, h \in BOOLEAN, d \in {0, SongDuration}}
    \ {[song |-> s, has_duration |-> FALSE, duration |-> SongDuration] : s \in Songs}
RpcMessages ==
    {[type |-> "Enable"], [type |-> "Disable"]}
    \cup {[type |-> "Metadata", payload |-> m] : m \in Metadatas}
    \cup {[type |-> "PlayState", status |-> st] : st \in {"Playing", "Paused"}}
    \cup {[type |-> "Timeline", current_time |-> c] : c \in Positions_ms}
NoData == [some |-> FALSE]
NoTimestamp == [some |-> FALSE]
NoActivity == [some |-> FALSE]
Some(v) == [some |-> TRUE, v |-> v]
Fresh == RECONNECT_COOLDOWN_SECONDS + 1

disconnect_keeps_timestamp(W) ==
    [W EXCEPT !.client = FALSE,
              !.shown = IF W.client THEN NoActivity ELSE @,
              !.sent = IF W.client THEN Append(@, "close") ELSE @]

\* RpcWorker::disconnect: the client is taken and closed, which ends the
\* presence shown for it; the timestamp is forgotten.
disconnect(W) ==
    [W EXCEPT !.client = FALSE,
              !.shown = IF W.client THEN NoActivity ELSE @,
              !.sent = IF W.client THEN Append(@, "close") ELSE @,
              !.last_sent_end_timestamp = NoTimestamp]

\* RpcWorker::handle_message.
handle_message(W, msg) ==
    IF msg.type = "Enable"
    THEN [W EXCEPT !.is_enabled = TRUE, !.connect_retry_count = 0, !.skipped = Fresh]
    ELSE IF msg.type = "Disable"
    THEN disconnect([W EXCEPT !.is_enabled = FALSE])
    ELSE IF msg.type = "Metadata"
    THEN [W EXCEPT !.data = IF W.data.some
                            THEN [W.data EXCEPT !.metadata = msg.payload,
                                                !.current_time = 0]
                            ELSE [some |-> TRUE, metadata |-> msg.payload,
                                  status |-> "Paused", current_time |-> 0],
                   !.last_sent_end_timestamp = NoTimestamp]
    ELSE IF msg.type = "PlayState"
    THEN IF W.data.some
         THEN [W EXCEPT !.last_sent_end_timestamp =
                            IF msg.status = "Playing" /\ W.data.status # "Playing"
                            THEN NoTimestamp ELSE @,
                        !.data.status = msg.status]
         ELSE W
    ELSE IF W.data.some THEN [W EXCEPT !.data.current_time = msg.current_time]
         ELSE W

connect_no_cooldown(W, ok) ==
    IF ok
    THEN [W EXCEPT !.client = TRUE, !.last_sent_end_timestamp = NoTimestamp,
                   !.sent = Append(@, "connect"), !.skipped = Fresh]
    ELSE [W EXCEPT !.connect_retry_count = RECONNECT_COOLDOWN_SECONDS,
                   !.sent = Append(@, "connect"), !.skipped = 0]

\* RpcWorker::connect: a call in the cooldown only counts down; otherwise
\* a connection is attempted, and a failure starts the cooldown.
connect(W, ok) ==
    IF W.connect_retry_count > 0
    THEN [W EXCEPT !.connect_retry_count = @ - 1, !.skipped = @ + 1]
    ELSE IF ok
    THEN [W EXCEPT !.client = TRUE, !.last_sent_end_timestamp = NoTimestamp,
                   !.sent = Append(@, "connect"), !.skipped = Fresh]
    ELSE [W EXCEPT !.connect_retry_count = RECONNECT_COOLDOWN_SECONDS,
                   !.sent = Append(@, "connect"), !.skipped = 0]

Abs(n) == IF n < 0 THEN 0 - n ELSE n
Max0(n) == IF n < 0 THEN 0 ELSE n

\* RpcWorker::perform_update on the held client: [W, success].  A paused
\* song clears the activity if a timestamp was sent; a playing one is
\* sent with its timestamps when it has a positive duration and the end
\* moved by the threshold or more (or none was sent), and without
\* timestamps in the other branch when a timestamp was sent before.
perform_update(W, ok) ==
    LET data == W.data
        last_end == W.last_sent_end_timestamp
    IN IF data.status = "Paused"
       THEN IF last_end.some
            THEN IF ~ok
                 THEN [W |-> [W EXCEPT !.sent = Append(@, "clear_activity")],
                       success |-> FALSE]
                 ELSE [W |-> [W EXCEPT !.sent = Append(@, "clear_activity"),
                                       !.shown = NoActivity,
                                       !.last_sent_end_timestamp = NoTimestamp],
                       success |-> TRUE]
            ELSE [W |-> W, success |-> TRUE]
       ELSE LET timed == data.metadata.has_duration /\ data.metadata.duration > 0
                remaining_ms == Max0(data.metadata.duration - data.current_time)
                end == W.now + remaining_ms
                should_update ==
                    IF timed
                    THEN ~(last_end.some
                           /\ Abs(last_end.v - end) < TIMESTAMP_UPDATE_THRESHOLD_MS)
                    ELSE last_end.some
                stamped == [W EXCEPT !.last_sent_end_timestamp =
                                IF timed THEN (IF should_update THEN Some(end) ELSE @)
                                ELSE NoTimestamp]
            IN IF ~should_update THEN [W |-> stamped, success |-> TRUE]
               ELSE IF ~ok
               THEN [W |-> [stamped EXCEPT !.sent = Append(@, "set_activity")],
                     success |-> FALSE]
               ELSE [W |-> [stamped EXCEPT
                                !.sent = Append(@, "set_activity"),
                                !.shown = [some |-> TRUE, song |-> data.metadata.song,
                                           timed |-> timed]],
                     success |-> TRUE]

\* RpcWorker::sync_discord: [W, success].  success says whether
\* perform_update was reached and answered true.
sync_discord(W, conn_ok, ok) ==
    IF ~W.is_enabled
    THEN [W |-> IF W.client THEN disconnect(W) ELSE W, success |-> FALSE]
    ELSE IF ~W.data.some
    THEN [W |-> IF W.client
                THEN [W EXCEPT !.sent = Append(@, "clear_activity"),
                               !.shown = IF ok THEN NoActivity ELSE @,
                               !.last_sent_end_timestamp = NoTimestamp]
                ELSE W,
          success |-> FALSE]
    ELSE LET C == IF ~W.client THEN connect(W, conn_ok) ELSE W
         IN IF C.client
            THEN LET u == perform_update(C, ok)
                 IN [W |-> IF u.success THEN u.W ELSE disconnect(u.W),
                     success |-> u.success]
            ELSE [W |-> C, success |-> FALSE]

DiscordInit ==
    /\ vtable = [o \in Objects |-> FullVt]
    /\ handles = [h \in Handles |-> NoHandle]
    /\ calls = [o \in Objects |-> NoCalls]
    /\ tasks = [t \in Tasks |-> NoTask]
    /\ aborted = FALSE
    /\ last = [op |-> "none"]
    /\ cell = NoCell
    /\ threads = [i \in Threads |-> NoThread]
    /\ v8 = NoCall
    /\ reg = [client |-> FALSE, data |-> NoData, is_enabled |-> FALSE,
              connect_retry_count |-> 0, last_sent_end_timestamp |-> NoTimestamp,
              now |-> 0, shown |-> NoActivity, sent |-> <<>>, skipped |-> Fresh,
              cleared |-> FALSE]

\* What a round of the loop leaves in last: the connect call it made, if
\* any, with the counter before it, and whether clear_activity was sent
\* for a pause it had been sent for already.
Round(op, type, W, H, r) ==
    [op |-> op, type |-> type, success |-> r.success,
     connect |-> IF H.is_enabled /\ H.data.some /\ ~H.client
                 THEN (IF H.connect_retry_count > 0 THEN "skipped" ELSE "attempted")
                 ELSE "none",
     count_before |-> H.connect_retry_count,
     skipped_before |-> H.skipped,
     cleared_again |-> /\ H.cleared /\ H.data.some /\ H.data.status = "Paused"
                       /\ H.is_enabled /\ "clear_activity" \in Range(r.W.sent)]

\* The pause the worker is in has had its clear_activity sent: set by a
\* clear in a round that ends paused, reset when the song plays.
Cleared(H, W) ==
    [W EXCEPT !.cleared =
         IF ~(W.data.some /\ W.data.status = "Paused") THEN FALSE
         ELSE IF H.is_enabled /\ "clear_activity" \in Range(W.sent) THEN TRUE
         ELSE @]

\* background_loop received msg: handle_message, then sync_discord.
Message(msg, conn_ok, ok) ==
    /\ LET H == handle_message([reg EXCEPT !.sent = <<>>], msg)
           r == sync_discord(H, conn_ok, ok)
           Hc == [H EXCEPT !.cleared = @ /\ H.data.some /\ H.data.status = "Paused"]
       IN /\ reg' = Cleared(H, [r.W EXCEPT !.cleared = Hc.cleared])
          /\ last' = Round("message", msg.type, reg, Hc, r)
    /\ UNCHANGED <<handleVars, refVars, v8>>

\* recv_timeout ran out: sync_discord if no client is held.
Timeout(conn_ok, ok) ==
    /\ LET r == IF ~reg.client
                THEN sync_discord([reg EXCEPT !.sent = <<>>], conn_ok, ok)
                ELSE [W |-> [reg EXCEPT !.sent = <<>>], success |-> FALSE]
       IN /\ reg' = Cleared(reg, r.W)
          /\ last' = [Round("timeout", "none", reg, reg, r) EXCEPT
                          !.connect = IF reg.client THEN "none" ELSE @]
    /\ UNCHANGED <<handleVars, refVars, v8>>

\* Time passes between two rounds of the loop.
Clock ==
    /\ reg.now < MaxNow * Tick
    /\ reg' = [reg EXCEPT !.now = @ + Tick]
    /\ last' = [op |-> "clock"]
    /\ UNCHANGED <<handleVars, refVars, v8>>

DiscordNext ==
    \/ \E msg \in RpcMessages, conn_ok \in BOOLEAN, ok \in BOOLEAN :
           Message(msg, conn_ok, ok)
    \/ \E conn_ok \in BOOLEAN, ok \in BOOLEAN : Timeout(conn_ok, ok)
    \/ Clock

DiscordSpec == DiscordInit /\ [][DiscordNext]_vars

\* The last step was a round of the loop: a message handled and
\* sync_discord, or a timeout.
AfterRound == last.op \in {"message", "timeout"}
\* The worker is enabled, connected and has metadata with this status,
\* and the sync of the last round returned successfully.
Synced(status) ==
    /\ AfterRound /\ last.success
    /\ reg.is_enabled /\ reg.client /\ reg.data.some
    /\ reg.data.status = status

\* C36: after every handled message followed by sync_discord a disabled
\* worker holds no client connection: is_enabled = false implies client
\* = none and last_sent_end_timestamp = none, for every sequence of
\* messages and connection outcomes.
C36_DisabledHoldsNoClient ==
    ~reg.is_enabled =>
        /\ ~reg.client
        /\ ~reg.last_sent_end_timestamp.some

\* A Disable message reached a worker that was connected: its client was
\* closed in that round.
C36_Witness ==
    /\ last.op = "message" /\ last.type = "Disable"
    /\ reg.sent = <<"close">>
    /\ ~reg.is_enabled /\ ~reg.client

\* C37: after a failed connection attempt the worker skips exactly the
\* next 5 calls of connect and attempts again on the 6th, unless an
\* Enable message arrives, which resets the cooldown so that the next
\* connect attempts at once; connect_retry_count stays in 0..5.
C37_CooldownOfFiveCalls ==
    /\ reg.connect_retry_count \in 0..RECONNECT_COOLDOWN_SECONDS
    /\ reg.connect_retry_count =
           (IF reg.skipped = Fresh THEN 0
            ELSE RECONNECT_COOLDOWN_SECONDS - reg.skipped)
    /\ AfterRound =>
           /\ last.connect = "attempted" =>
                  last.skipped_before \in {Fresh, RECONNECT_COOLDOWN_SECONDS}
           /\ last.connect = "skipped" =>
                  /\ last.skipped_before \in 0..RECONNECT_COOLDOWN_SECONDS - 1
                  /\ last.count_before > 0
           /\ (last.type = "Enable" /\ last.connect # "none") =>
                  last.connect = "attempted"

\* The sixth call of connect after a failed attempt attempts again.
C37_Witness ==
    /\ AfterRound
    /\ last.connect = "attempted"
    /\ last.skipped_before = RECONNECT_COOLDOWN_SECONDS

\* C38: whenever the worker is enabled, connected, has metadata and the
\* status is Playing, after sync_discord returned successfully the
\* activity shown on Discord is that of the current metadata: never
\* absent and never that of a previous song, songs with no or a
\* non-positive duration included.
C38_PlayingShowsCurrentSong ==
    Synced("Playing") =>
        /\ reg.shown.some
        /\ reg.shown.song = reg.data.metadata.song

\* C39: whenever the worker is enabled, connected, has metadata and the
\* status is Paused, after sync_discord returned successfully no activity
\* is shown on Discord, and clear_activity is sent at most once per
\* pause.
C39_PausedShowsNothing ==
    /\ Synced("Paused") => ~reg.shown.some
    /\ AfterRound => ~last.cleared_again

====
